---- MODULE Spec2Model ----
(***************************************************************************)
(* Model of the broadband map vectorization scripts                        *)
(*   scripts/broadband_quickstart.py                                       *)
(*   scripts/process_extracted_map.py                                      *)
(*   scripts/process_map_no_legend.py                                      *)
(* Each script's main runs the same pipeline: detect_broadband_regions     *)
(* (classify every category's pixels with cv2.inRange, clean the mask),    *)
(* masks_to_polygons, georeference_polygons, create_geojson (merge per     *)
(* category, simplify, write).                                             *)
(*                                                                         *)
(* Representation.                                                         *)
(*  - A colour is a triple <<r, g, b>> of integers.                        *)
(*  - The image is a sequence of regions; all pixels of a region have the  *)
(*    region's colour, and the region carries what OpenCV traces for it:   *)
(*    its contour (a sequence of pixel points) and the points              *)
(*    cv2.approxPolyDP keeps of that contour.                              *)
(*  - A raw mask (the result of cv2.inRange) is the set of regions whose   *)
(*    pixels are set; a filled mask is the sequence of contours drawn      *)
(*    into it.                                                             *)
(*  - A geometry is [ring, dx, dy]: the closed ring of points whose        *)
(*    coordinates are ring[i][1]/dx and ring[i][2]/dy (exact rationals in  *)
(*    place of Python floats).  Degrees are counted in 1/1000 degree.      *)
(***************************************************************************)
EXTENDS Integers, Sequences, FiniteSets, TLC

VARIABLES
    script,        \* which script's main is running
    pc,            \* position in main
    color_config,  \* the category table in use: sequence of [name, color, hex]
    tolerance,     \* the tolerance passed to detect_broadband_regions
    image,         \* the raster: sequence of regions [color, contour]
    bbox,          \* the bounding box passed to georeference_polygons
    idx,           \* loop index of the running per-category loop
    mask,          \* local `mask` of detect_broadband_regions after cv2.inRange
    masks,         \* dict category -> filled mask, in insertion order
    polygons,      \* result of masks_to_polygons
    geo_polygons,  \* result of georeference_polygons
    gdf,           \* records of the final GeoDataFrame (None until created)
    outfile,       \* content of the output GeoJSON file (None until written)
    stdout,        \* messages printed by main that a caller can tell apart
    stdin,         \* what the user will type at the coming input() prompts
    files,         \* the files that exist: path -> content
    locals         \* fields and local variables of the interactive tool running

vars == <<script, pc, color_config, tolerance, image, bbox, idx, mask, masks,
          polygons, geo_polygons, gdf, outfile, stdout, stdin, files, locals>>

\* A frame that was not created, a file that was not written
None == [made |-> FALSE, rows |-> <<>>]
\* A GeoDataFrame (and the GeoJSON file written from it) with its records
Frame(rows) == [made |-> TRUE, rows |-> rows]

\* No file at all, and no interactive tool running
NoFiles == [p \in {} |-> {}]
NoLocals == [v \in {} |-> {}]

(***************************************************************************)
(* Bounds of the model                                                     *)
(***************************************************************************)
MaxRegions == 2      \* regions of the image in a pipeline run
MaxPts == 4          \* points of a traced contour
MaxPolys == 3        \* polygons handed to create_geojson on its own
MaxGeoPolys == 2     \* polygons handed to georeference_polygons on its own
ImageW == 21         \* image width in pixels
ImageH == 21         \* image height in pixels

(***************************************************************************)
(* Generic helpers                                                         *)
(***************************************************************************)
Max(a, b) == IF a >= b THEN a ELSE b
Min(a, b) == IF a <= b THEN a ELSE b
Abs(a) == IF a >= 0 THEN a ELSE -a

Range(s) == {s[i] : i \in 1..Len(s)}

\* Sequences over S of length lo..hi
SeqsBetween(S, lo, hi) == UNION {[1..n -> S] : n \in lo..hi}

RECURSIVE Concat(_)
Concat(ss) == IF ss = <<>> THEN <<>> ELSE Head(ss) \o Concat(Tail(ss))

\* s[i] for the indices i of s that satisfy Keep, in order
RECURSIVE SelectIdx(_, _, _)
SelectIdx(s, keep, i) ==
    IF i > Len(s) THEN <<>>
    ELSE (IF i \in keep THEN <<s[i]>> ELSE <<>>) \o SelectIdx(s, keep, i + 1)

\* All non-empty order-preserving subsequences of s
Subseqs(s) == {SelectIdx(s, k, 1) : k \in (SUBSET (1..Len(s))) \ {{}}}

(***************************************************************************)
(* Category tables of the three scripts                                    *)
(***************************************************************************)
Scripts == {"quickstart", "extracted", "no_legend"}

CategoryNames ==
    <<"0-9 Mbps", "10-24 Mbps", "25-49 Mbps", "50-100 Mbps", "100+ Mbps">>

Cat(n, c, h) == [name |-> n, color |-> c, hex |-> h]

SPEED_CATEGORIES ==
    << Cat("0-9 Mbps",    <<187, 17, 34>>,  "#bb1122"),
       Cat("10-24 Mbps",  <<103, 58, 21>>,  "#673a15"),
       Cat("25-49 Mbps",  <<221, 221, 85>>, "#dddd55"),
       Cat("50-100 Mbps", <<89, 144, 59>>,  "#59903b"),
       Cat("100+ Mbps",   <<84, 173, 89>>,  "#54ad59") >>

DefaultConfigExtracted ==
    << Cat("0-9 Mbps",    <<204, 0, 0>>,     "#CC0000"),
       Cat("10-24 Mbps",  <<255, 127, 0>>,   "#FF7F00"),
       Cat("25-49 Mbps",  <<255, 255, 0>>,   "#FFFF00"),
       Cat("50-100 Mbps", <<127, 201, 127>>, "#7FC97F"),
       Cat("100+ Mbps",   <<0, 114, 0>>,     "#007200") >>

DefaultConfigNoLegend ==
    << Cat("0-9 Mbps",    <<187, 17, 34>>,  "#bb1122"),
       Cat("10-24 Mbps",  <<255, 123, 0>>,  "#ff7b00"),
       Cat("25-49 Mbps",  <<221, 221, 85>>, "#dddd55"),
       Cat("50-100 Mbps", <<89, 144, 59>>,  "#59903b"),
       Cat("100+ Mbps",   <<14, 140, 14>>,  "#0e8c0e") >>

DefaultConfig(s) ==
    IF s = "quickstart" THEN SPEED_CATEGORIES
    ELSE IF s = "extracted" THEN DefaultConfigExtracted
    ELSE DefaultConfigNoLegend

DefaultTolerance == 50

\* Bounding boxes, in 1/1000 degree
Box(w, e, s, n) == [west |-> w, east |-> e, south |-> s, north |-> n]

CLEVELAND_BBOX(s) ==
    IF s = "no_legend" THEN Box(-81800, -81530, 41400, 41580)
    ELSE Box(-81820, -81550, 41390, 41600)

(***************************************************************************)
(* Colour classification: detect_broadband_regions, lines lower/upper and  *)
(* cv2.inRange                                                             *)
(***************************************************************************)
Channels == 1..3

\* lower = np.maximum(0, color - tolerance)
LowerBound(color, t) == [i \in Channels |-> Max(0, color[i] - t)]

\* upper = np.minimum(255, color + tolerance)
UpperBound_OffByOne(color, t) == [i \in Channels |-> Min(255, color[i] + t - 1)]
UpperBound(color, t) == [i \in Channels |-> Min(255, color[i] + t)]

\* cv2.inRange on one pixel: set iff lower[i] <= pixel[i] <= upper[i] on
\* every channel
InRange(pixel, lower, upper) ==
    \A i \in Channels : lower[i] <= pixel[i] /\ pixel[i] <= upper[i]

\* mask = cv2.inRange(image, lower, upper): the regions whose pixels are set
InRangeMask(img, color, t) ==
    {r \in 1..Len(img) :
        InRange(img[r].color, LowerBound(color, t), UpperBound(color, t))}

(***************************************************************************)
(* Plane geometry on integer points <<x, y>>                               *)
(***************************************************************************)
Sign(a) == IF a > 0 THEN 1 ELSE IF a < 0 THEN -1 ELSE 0

\* Cross product of (a - o) and (b - o): > 0 when o, a, b turn left
Orient(o, a, b) ==
    (a[1] - o[1]) * (b[2] - o[2]) - (a[2] - o[2]) * (b[1] - o[1])

Dot(o, a, b) ==
    (a[1] - o[1]) * (b[1] - o[1]) + (a[2] - o[2]) * (b[2] - o[2])

\* p lies on the closed segment a-b
OnSegment(a, b, p) ==
    /\ Orient(a, b, p) = 0
    /\ Min(a[1], b[1]) <= p[1] /\ p[1] <= Max(a[1], b[1])
    /\ Min(a[2], b[2]) <= p[2] /\ p[2] <= Max(a[2], b[2])

\* The closed segments a-b and c-d have a common point
SegmentsIntersect(a, b, c, d) ==
    \/ /\ Sign(Orient(a, b, c)) * Sign(Orient(a, b, d)) < 0
       /\ Sign(Orient(c, d, a)) * Sign(Orient(c, d, b)) < 0
    \/ OnSegment(a, b, c) \/ OnSegment(a, b, d)
    \/ OnSegment(c, d, a) \/ OnSegment(c, d, b)

\* Twice the signed area of the closed curve through pts (shoelace formula,
\* taken relative to the first point)
Shoelace2(pts) ==
    LET n == Len(pts)
        nxt(i) == IF i = n THEN 1 ELSE i + 1
        RECURSIVE Sum(_)
        Sum(i) == IF i > n THEN 0
                  ELSE Orient(pts[1], pts[i], pts[nxt(i)]) + Sum(i + 1)
    IN  IF n = 0 THEN 0 ELSE Sum(1)

(***************************************************************************)
(* shapely Polygon                                                         *)
(***************************************************************************)
\* A ring is closed: shapely appends the first point when the last differs
CloseRing(coords) ==
    IF coords[1] = coords[Len(coords)] THEN coords
    ELSE Append(coords, coords[1])

\* Polygon(coords) with coords[i] = <<x / dx, y / dy>>
Polygon_Unscaled(coords, dx, dy) == [ring |-> CloseRing(coords), dx |-> 1, dy |-> 1]
Polygon(coords, dx, dy) == [ring |-> CloseRing(coords), dx |-> dx, dy |-> dy]

\* polygon.exterior.coords
ExteriorCoords(g) == g.ring

\* The vertices of a geometry, the closing point left out
Vertices(g) == SubSeq(g.ring, 1, Len(g.ring) - 1)

\* polygon.area > 0; the area is |Shoelace2| / (2 * dx * dy)
AreaPositive(g) == Shoelace2(Vertices(g)) # 0

\* polygon.is_valid, for a ring of distinct points: at least three vertices,
\* two neighbouring edges meet only in their common vertex, two other edges
\* do not meet at all
IsValid(g) ==
    LET v == Vertices(g)
        n == Len(v)
        nxt(i) == IF i = n THEN 1 ELSE i + 1
        Adjacent(i, j) == j = nxt(i) \/ i = nxt(j)
    IN  /\ n >= 3
        /\ \A i \in 1..n :
              ~ ( /\ Orient(v[i], v[nxt(i)], v[nxt(nxt(i))]) = 0
                  /\ Dot(v[nxt(i)], v[i], v[nxt(nxt(i))]) > 0 )
        /\ \A i, j \in 1..n :
              (i < j /\ ~Adjacent(i, j)) =>
                  ~SegmentsIntersect(v[i], v[nxt(i)], v[j], v[nxt(j)])

(***************************************************************************)
(* masks_to_polygons                                                       *)
(***************************************************************************)
MinArea == 100

\* cv2.contourArea(contour) < 100, the area being |Shoelace2| / 2
TooSmall_Inclusive(contour) == Abs(Shoelace2(contour.pts)) <= 2 * MinArea
TooSmall(contour) == Abs(Shoelace2(contour.pts)) < 2 * MinArea

\* approx = cv2.approxPolyDP(contour, epsilon, True): the points of the
\* contour that the simplification keeps
ApproxPolyDP(contour) == contour.approx

\* mask_category_to_hex of process_extracted_map.py / process_map_no_legend.py
mask_category_to_hex(s, category) ==
    IF s = "extracted" THEN
        CASE category = "0-9 Mbps"    -> "#FF0000"
          [] category = "10-24 Mbps"  -> "#FFA500"
          [] category = "25-49 Mbps"  -> "#FFFF00"
          [] category = "50-100 Mbps" -> "#90EE90"
          [] category = "100+ Mbps"   -> "#008000"
          [] OTHER                    -> "#FFFFFF"
    ELSE
        CASE category = "0-9 Mbps"    -> "#bb1122"
          [] category = "10-24 Mbps"  -> "#ff7b00"
          [] category = "25-49 Mbps"  -> "#dddd55"
          [] category = "50-100 Mbps" -> "#59903b"
          [] category = "100+ Mbps"   -> "#0e8c0e"
          [] OTHER                    -> "#FFFFFF"

\* SPEED_CATEGORIES[category]['hex'] of broadband_quickstart.py
SpeedCategoryHex(category) ==
    LET i == CHOOSE k \in 1..Len(SPEED_CATEGORIES) :
                 SPEED_CATEGORIES[k].name = category
    IN  SPEED_CATEGORIES[i].hex

\* The display colour a script attaches to a category
HexOf(s, category) ==
    IF s = "quickstart" THEN SpeedCategoryHex(category)
    ELSE mask_category_to_hex(s, category)

PolyRec(g, category, hex) ==
    [geometry |-> g, speed_category |-> category, color |-> hex]

\* if len(approx) >= 3: ... polygon = Polygon(coords);
\* if polygon.is_valid and polygon.area > 0: append
EmitOk_LenOnly(approx, width, height) == Len(approx) >= 3
EmitOk(approx, width, height) ==
    /\ Len(approx) >= 3
    /\ IsValid(Polygon(approx, width, height))
    /\ AreaPositive(Polygon(approx, width, height))

\* The body of `for contour in contours` for one contour: the records it
\* appends to all_polygons
ContourPolygons(s, category, contour, width, height) ==
    IF TooSmall(contour) THEN <<>>
    ELSE LET approx == ApproxPolyDP(contour)
         IN  IF EmitOk(approx, width, height)
             THEN <<PolyRec(Polygon(approx, width, height), category,
                            HexOf(s, category))>>
             ELSE <<>>

\* The body of `for category, mask in masks.items()`: contours is what
\* cv2.findContours returns for the filled mask
CategoryPolygons(s, category, contours, width, height) ==
    Concat([i \in 1..Len(contours) |->
               ContourPolygons(s, category, contours[i], width, height)])

(***************************************************************************)
(* georeference_polygons                                                   *)
(***************************************************************************)
\* lon = bbox['west'] + x * (bbox['east'] - bbox['west']) with x = p[1] / dx,
\* as the numerator of lon over dx
GeoLon_FromEast(p, dx, b) == b.east * dx + p[1] * (b.east - b.west)
GeoLon(p, dx, b) == b.west * dx + p[1] * (b.east - b.west)

\* lat = bbox['north'] - y * (bbox['north'] - bbox['south']) with
\* y = p[2] / dy, as the numerator of lat over dy
GeoLat_FromSouth(p, dy, b) == b.south * dy + p[2] * (b.north - b.south)
GeoLat(p, dy, b) == b.north * dy - p[2] * (b.north - b.south)

\* The loop body over one poly_dict
GeoreferenceOne(rec, b) ==
    LET g == rec.geometry
        coords == ExteriorCoords(g)
        geo_coords == [i \in 1..Len(coords) |->
                          <<GeoLon(coords[i], g.dx, b), GeoLat(coords[i], g.dy, b)>>]
    IN  PolyRec(Polygon(geo_coords, g.dx, g.dy), rec.speed_category, rec.color)

GeoreferencePolygons(polys, b) ==
    [i \in 1..Len(polys) |-> GeoreferenceOne(polys[i], b)]

(***************************************************************************)
(* shapely.ops.unary_union on convex polygons: two polygons belong to the  *)
(* same part of the union when their interiors overlap or their            *)
(* boundaries share a segment; parts that meet only in isolated points     *)
(* stay separate polygons of a MultiPolygon.                               *)
(***************************************************************************)
Edges(g) == {<<g.ring[i], g.ring[i + 1]>> : i \in 1..(Len(g.ring) - 1)}

\* The side of its edges on which a convex polygon lies
Inside(g) == Sign(Shoelace2(Vertices(g)))

\* Some edge of g has all of h on its outer side or on it
SeparatedBy(g, h) ==
    \E e \in Edges(g) :
        \A q \in Range(Vertices(h)) : Inside(g) * Orient(e[1], e[2], q) <= 0

\* The interiors of the convex polygons g and h have a common point
Overlap(g, h) == ~SeparatedBy(g, h) /\ ~SeparatedBy(h, g)

\* The collinear segments e and f have more than one common point
CollinearOverlap(e, f) ==
    /\ Orient(e[1], e[2], f[1]) = 0
    /\ Orient(e[1], e[2], f[2]) = 0
    /\ LET len == Dot(e[1], e[2], e[2])
           t1 == Dot(e[1], e[2], f[1])
           t2 == Dot(e[1], e[2], f[2])
       IN  Max(0, Min(t1, t2)) < Min(len, Max(t1, t2))

\* The boundaries of g and h share a segment of positive length
ShareEdge(g, h) ==
    \E e \in Edges(g), f \in Edges(h) : CollinearOverlap(e, f)

\* g and h have a common point (interior or boundary)
Touch(g, h) ==
    \/ Overlap(g, h)
    \/ \E e \in Edges(g), f \in Edges(h) :
           SegmentsIntersect(e[1], e[2], f[1], f[2])

\* g and h coalesce in a union
Joined(g, h) == Overlap(g, h) \/ ShareEdge(g, h)

\* The indices reachable from those of S through Joined
RECURSIVE Reach(_, _)
Reach(gs, S) ==
    LET T == S \cup {j \in 1..Len(gs) : \E i \in S : Joined(gs[i], gs[j])}
    IN  IF T = S THEN S ELSE Reach(gs, T)

MinOf(S) == CHOOSE m \in S : \A k \in S : m <= k

\* The set S of indices in increasing order
RECURSIVE Sorted(_)
Sorted(S) == IF S = {} THEN <<>>
             ELSE <<MinOf(S)>> \o Sorted(S \ {MinOf(S)})

\* merged = unary_union(geometries): the parts of the union, each the set of
\* the input geometries it covers
UnaryUnion(gs) ==
    LET firsts == {i \in 1..Len(gs) : i = MinOf(Reach(gs, {i}))}
        order == Sorted(firsts)
    IN  [k \in 1..Len(order) |-> {gs[i] : i \in Reach(gs, {order[k]})}]

\* merged.geom_type
GeomType(merged) == IF Len(merged) = 1 THEN "Polygon" ELSE "MultiPolygon"

(***************************************************************************)
(* create_geojson: the merge loop                                          *)
(***************************************************************************)
\* gdf[gdf['speed_category'] == category].geometry
CategoryGeoms_AnyCategory(polys, category) ==
    [i \in 1..Len(polys) |-> polys[i].geometry]
CategoryGeoms(polys, category) ==
    LET keep == {i \in 1..Len(polys) : polys[i].speed_category = category}
        sel == SelectIdx(polys, keep, 1)
    IN  [i \in 1..Len(sel) |-> sel[i].geometry]

\* The records one iteration of `for category in ...` appends to
\* merged_polygons
MergedFor_OneRecord(s, polys, category) ==
    LET gs == CategoryGeoms(polys, category)
    IN  IF Len(gs) > 0
        THEN <<PolyRec(UNION Range(UnaryUnion(gs)), category, HexOf(s, category))>>
        ELSE <<>>
MergedFor_NoUnion(s, polys, category) ==
    LET gs == CategoryGeoms(polys, category)
    IN  [k \in 1..Len(gs) |-> PolyRec({gs[k]}, category, HexOf(s, category))]
MergedFor(s, polys, category) ==
    LET gs == CategoryGeoms(polys, category)
        merged == UnaryUnion(gs)
    IN  IF Len(gs) > 0
        THEN IF GeomType(merged) = "Polygon"
             THEN <<PolyRec(merged[1], category, HexOf(s, category))>>
             ELSE [k \in 1..Len(merged) |->
                      PolyRec(merged[k], category, HexOf(s, category))]
        ELSE <<>>

\* merged_polygons after the loop over the categories in `order`
MergeCategories_FirstVisited(s, polys, order) ==
    IF order = <<>> THEN <<>> ELSE MergedFor(s, polys, order[1])
MergeCategories(s, polys, order) ==
    Concat([k \in 1..Len(order) |-> MergedFor(s, polys, order[k])])

\* The orders in which the loop may visit the categories:
\* SPEED_CATEGORIES.keys() in broadband_quickstart.py, the iteration order of
\* set(gdf['speed_category']) in the other two scripts
Orderings(S) ==
    {f \in [1..Cardinality(S) -> S] : \A i, j \in DOMAIN f : i # j => f[i] # f[j]}

CategoryOrders(s, polys) ==
    IF s = "quickstart"
    THEN {[k \in 1..Len(SPEED_CATEGORIES) |-> SPEED_CATEGORIES[k].name]}
    ELSE Orderings({polys[i].speed_category : i \in 1..Len(polys)})

\* final_gdf['geometry'].simplify(0.0001): Douglas-Peucker drops boundary
\* vertices that lie within 0.0001 degree of the simplified boundary; a
\* geometry is kept here as the set of polygons it covers, whose sides are
\* far longer than the tolerance, so the region covered stays the same
Simplify(rec) == rec

(***************************************************************************)
(* detect_broadband_regions: mask cleaning                                 *)
(***************************************************************************)
NoContour == [pts |-> <<>>, approx |-> <<>>]

\* The morphological close and open, cv2.findContours and the filled
\* cv2.drawContours: the filled mask holds the contours traced in the
\* cleaned mask; a region the opening removed has none
FilledMask(img, m) ==
    SelectIdx([r \in 1..Len(img) |-> img[r].contour],
              {r \in m : img[r].contour # NoContour}, 1)

\* np.sum(mask) > 0
HasContent(filled) == filled # <<>>

\* End of `for category, info in ....items()`
DetectLoopDone_AfterFirst(i, config) == i > Min(1, Len(config))
DetectLoopDone(i, config) == i > Len(config)

(***************************************************************************)
(* main                                                                    *)
(***************************************************************************)
\* An exception raised in main: broadband_quickstart.py lets it escape, the
\* other two scripts catch it, print it and return
Raised(s) == IF s = "quickstart" THEN "crashed" ELSE "caught"

BeginDetect ==
    /\ pc = "detect"
    /\ masks' = <<>>
    /\ idx' = 1
    /\ pc' = "classify"
    /\ UNCHANGED <<script, color_config, tolerance, image, bbox, mask,
                   polygons, geo_polygons, gdf, outfile, stdout>>
    /\ UNCHANGED <<stdin, files, locals>>

\* info['color'] of an entry of the colour configuration: a KeyError when the
\* entry read from the configuration file has no such key
HasColor(info) == "color" \in DOMAIN info

\* color, lower, upper, mask = cv2.inRange(image, lower, upper); an exception
\* raised here leaves detect_broadband_regions and reaches main
Classify ==
    /\ pc = "classify"
    /\ ~DetectLoopDone(idx, color_config)
    /\ IF HasColor(color_config[idx])
       THEN /\ mask' = InRangeMask(image, color_config[idx].color, tolerance)
            /\ pc' = "clean"
            /\ stdout' = stdout
       ELSE /\ mask' = mask
            /\ pc' = Raised(script)
            /\ stdout' = IF script = "quickstart" THEN stdout
                         ELSE Append(stdout, "An error occurred")
    /\ UNCHANGED <<script, color_config, tolerance, image, bbox, idx, masks,
                   polygons, geo_polygons, gdf, outfile>>
    /\ UNCHANGED <<stdin, files, locals>>

\* morphologyEx close, open, fill; masks[category] = mask_filled
Clean ==
    /\ pc = "clean"
    /\ masks' = Append(masks, [category |-> color_config[idx].name,
                               mask |-> FilledMask(image, mask)])
    /\ idx' = idx + 1
    /\ pc' = "classify"
    /\ UNCHANGED <<script, color_config, tolerance, image, bbox, mask,
                   polygons, geo_polygons, gdf, outfile, stdout>>
    /\ UNCHANGED <<stdin, files, locals>>

\* The debug block after the loop, then the return to main and the call of
\* masks_to_polygons
DebugMasks ==
    /\ pc = "classify"
    /\ DetectLoopDone(idx, color_config)
    /\ stdout' = IF \E i \in 1..Len(masks) : HasContent(masks[i].mask)
                 THEN stdout
                 ELSE Append(stdout, "WARNING: No regions detected in any mask")
    /\ idx' = 1
    /\ pc' = "vectorize"
    /\ UNCHANGED <<script, color_config, tolerance, image, bbox, mask, masks,
                   polygons, geo_polygons, gdf, outfile>>
    /\ UNCHANGED <<stdin, files, locals>>

\* print(f"  {category}: {category_polygons} polygons") at the end of an
\* iteration in process_extracted_map.py and process_map_no_legend.py;
\* broadband_quickstart.py prints nothing there
CountLine(s, category, n) ==
    IF s = "quickstart" THEN <<>>
    ELSE <<category \o ": " \o ToString(n) \o " polygons">>

\* print(f"  Total: {len(all_polygons)} polygons") before masks_to_polygons
\* returns, print(f"  Found {len(polygons)} polygons") in broadband_quickstart.py
TotalLine(s, n) ==
    IF s = "quickstart" THEN <<"Found " \o ToString(n) \o " polygons">>
    ELSE <<"Total: " \o ToString(n) \o " polygons">>

\* One iteration of `for category, mask in masks.items()`
VectorizeCategory ==
    /\ pc = "vectorize"
    /\ idx <= Len(masks)
    /\ LET found == CategoryPolygons(script, masks[idx].category,
                                     masks[idx].mask, ImageW, ImageH)
       IN  /\ polygons' = polygons \o found
           /\ stdout' = stdout \o CountLine(script, masks[idx].category, Len(found))
    /\ idx' = idx + 1
    /\ UNCHANGED <<script, pc, color_config, tolerance, image, bbox, mask, masks,
                   geo_polygons, gdf, outfile>>
    /\ UNCHANGED <<stdin, files, locals>>

\* masks_to_polygons returns; process_extracted_map.py and
\* process_map_no_legend.py return when there is no polygon
AfterVectorize ==
    /\ pc = "vectorize"
    /\ idx > Len(masks)
    /\ IF script # "quickstart" /\ polygons = <<>>
       THEN /\ stdout' = Append(stdout \o TotalLine(script, Len(polygons)),
                                "No polygons were detected")
            /\ pc' = "done"
       ELSE /\ stdout' = stdout \o TotalLine(script, Len(polygons))
            /\ pc' = "georef"
    /\ UNCHANGED <<script, color_config, tolerance, image, bbox, idx, mask, masks,
                   polygons, geo_polygons, gdf, outfile>>
    /\ UNCHANGED <<stdin, files, locals>>

Georeference ==
    /\ pc = "georef"
    /\ geo_polygons' = GeoreferencePolygons(polygons, bbox)
    /\ pc' = "merge"
    /\ UNCHANGED <<script, color_config, tolerance, image, bbox, idx, mask, masks,
                   polygons, gdf, outfile, stdout>>
    /\ UNCHANGED <<stdin, files, locals>>

\* create_geojson up to final_gdf = gpd.GeoDataFrame(merged_polygons): with
\* no polygon the frame has no 'speed_category' column and the lookup raises
Merge ==
    /\ pc = "merge"
    /\ IF geo_polygons = <<>>
       THEN /\ pc' = Raised(script)
            /\ gdf' = gdf
            /\ stdout' = IF script = "quickstart" THEN stdout
                         ELSE Append(stdout, "An error occurred")
       ELSE /\ \E order \in CategoryOrders(script, geo_polygons) :
                   gdf' = Frame(MergeCategories(script, geo_polygons, order))
            /\ pc' = "simplify"
            /\ stdout' = stdout
    /\ UNCHANGED <<script, color_config, tolerance, image, bbox, idx, mask, masks,
                   polygons, geo_polygons, outfile>>
    /\ UNCHANGED <<stdin, files, locals>>

\* final_gdf['geometry'] = final_gdf['geometry'].simplify(0.0001)
SimplifyStep ==
    /\ pc = "simplify"
    /\ gdf' = Frame([k \in 1..Len(gdf.rows) |-> Simplify(gdf.rows[k])])
    /\ pc' = "write"
    /\ UNCHANGED <<script, color_config, tolerance, image, bbox, idx, mask, masks,
                   polygons, geo_polygons, outfile, stdout>>
    /\ UNCHANGED <<stdin, files, locals>>

\* final_gdf.to_file(output_path, driver='GeoJSON'); return final_gdf
Write ==
    /\ pc = "write"
    /\ outfile' = gdf
    /\ pc' = "summary"
    /\ UNCHANGED <<script, color_config, tolerance, image, bbox, idx, mask, masks,
                   polygons, geo_polygons, gdf, stdout>>
    /\ UNCHANGED <<stdin, files, locals>>

Summary ==
    /\ pc = "summary"
    /\ stdout' = Append(stdout, "Summary")
    /\ pc' = "visualize"
    /\ UNCHANGED <<script, color_config, tolerance, image, bbox, idx, mask, masks,
                   polygons, geo_polygons, gdf, outfile>>
    /\ UNCHANGED <<stdin, files, locals>>

Visualize_Mutating ==
    /\ pc = "visualize"
    /\ gdf' = Frame(<<>>)
    /\ stdout' = Append(stdout, "Broadband speed polygons saved")
    /\ pc' = "done"
    /\ UNCHANGED <<script, color_config, tolerance, image, bbox, idx, mask, masks,
                   polygons, geo_polygons, outfile>>
    /\ UNCHANGED <<stdin, files, locals>>

\* visualize_results(gdf, ...) plots the frame; then the closing messages
Visualize ==
    /\ pc = "visualize"
    /\ stdout' = Append(stdout, "Broadband speed polygons saved")
    /\ pc' = "done"
    /\ UNCHANGED <<script, color_config, tolerance, image, bbox, idx, mask, masks,
                   polygons, geo_polygons, gdf, outfile>>
    /\ UNCHANGED <<stdin, files, locals>>

(***************************************************************************)
(* Inputs of a run of main                                                 *)
(***************************************************************************)
Rect(x0, y0, x1, y1) == <<<<x0, y0>>, <<x1, y0>>, <<x1, y1>>, <<x0, y1>>>>

Traced(pts, approx) == [pts |-> pts, approx |-> approx]

SquareA == Traced(Rect(0, 0, 10, 10), Rect(0, 0, 10, 10))
SquareB == Traced(Rect(10, 10, 20, 20), Rect(10, 10, 20, 20))
\* a region below the minimum area
Speck == Traced(<<<<0, 0>>, <<10, 0>>, <<0, 10>>>>, <<<<0, 0>>, <<10, 0>>, <<0, 10>>>>)
\* a region whose simplified contour keeps two points only
Sliver == Traced(Rect(0, 0, 10, 10), <<<<0, 0>>, <<10, 10>>>>)

Red == <<187, 17, 34>>
Green == <<89, 144, 59>>
White == <<255, 255, 255>>

Region(c, k) == [color |-> c, contour |-> k]

\* The contour cv2.findContours traces when every pixel of the mask is set:
\* the corner pixels of the image, (0, 0) to (width - 1, height - 1)
WholeImage ==
    Traced(Rect(0, 0, ImageW - 1, ImageH - 1), Rect(0, 0, ImageW - 1, ImageH - 1))

RegionKinds ==
    {Region(c, k) : c \in {Red, Green},
                    k \in {SquareA, SquareB, Speck, Sliver, NoContour, WholeImage}}
        \cup {Region(White, SquareA)}

Images == SeqsBetween(RegionKinds, 0, MaxRegions)

\* What the colour configuration file may hold
CustomConfig == <<Cat("0-9 Mbps", Red, "#bb1122"), Cat("50-100 Mbps", Green, "#59903b")>>

\* A configuration file whose second entry has no 'color' key
BrokenConfig ==
    << Cat("0-9 Mbps", Red, "#bb1122"),
       [name |-> "10-24 Mbps", hex |-> "#ff7b00"],
       Cat("50-100 Mbps", Green, "#59903b") >>

ConfigChoices(s) ==
    IF s = "quickstart" THEN {SPEED_CATEGORIES}
    ELSE {DefaultConfig(s), CustomConfig, BrokenConfig, <<>>}

\* int(tolerance_str): any integer the user types
ToleranceChoices(s) ==
    IF s = "quickstart" THEN {DefaultTolerance}
    ELSE {-1, 0, DefaultTolerance}

InitLocals ==
    /\ idx = 0
    /\ mask = {}
    /\ masks = <<>>
    /\ polygons = <<>>
    /\ geo_polygons = <<>>
    /\ gdf = None
    /\ outfile = None
    /\ stdout = <<>>
    /\ stdin = <<>> /\ files = NoFiles /\ locals = NoLocals

Init ==
    /\ script \in Scripts
    /\ color_config \in ConfigChoices(script)
    /\ tolerance \in ToleranceChoices(script)
    /\ image \in Images
    /\ bbox = CLEVELAND_BBOX(script)
    /\ pc = "detect"
    /\ InitLocals

Next ==
    \/ BeginDetect
    \/ Classify
    \/ Clean
    \/ DebugMasks
    \/ VectorizeCategory
    \/ AfterVectorize
    \/ Georeference
    \/ Merge
    \/ SimplifyStep
    \/ Write
    \/ Summary
    \/ Visualize

Spec == Init /\ [][Next]_vars

(***************************************************************************)
(* The colour classification on its own: one pixel, one category           *)
(***************************************************************************)
PixelChannelValues == {0, 1, 2, 255}
ReferenceChannelValues == {0, 1, 254, 255}
NonNegativeTolerances == {0, 1, 2, 255}

InitClassify ==
    /\ script = "extracted"
    /\ \E r \in [Channels -> ReferenceChannelValues] :
           color_config = <<Cat("0-9 Mbps", r, "#CC0000")>>
    /\ tolerance \in NonNegativeTolerances
    /\ \E c \in [Channels -> PixelChannelValues] :
           image = <<Region(c, SquareA)>>
    /\ bbox = CLEVELAND_BBOX(script)
    /\ pc = "classify"
    /\ idx = 1 /\ mask = {} /\ masks = <<>> /\ polygons = <<>>
    /\ geo_polygons = <<>> /\ gdf = None /\ outfile = None /\ stdout = <<>>
    /\ stdin = <<>> /\ files = NoFiles /\ locals = NoLocals

NextClassify == Classify

SpecClassify == InitClassify /\ [][NextClassify]_vars

\* C1: after cv2.inRange on the clamped range [R - t, R + t], t >= 0, a pixel
\* of colour C is set in the mask exactly when |C[i] - R[i]| <= t on all
\* three channels (the mask before any morphological cleaning).
C1_ClassifiedIffWithinTolerance ==
    (pc = "clean" /\ tolerance >= 0) =>
        \A r \in 1..Len(image) :
            (r \in mask) <=>
                (\A i \in Channels :
                    Abs(image[r].color[i] - color_config[idx].color[i]) <= tolerance)

\* A pixel that differs from the reference is set, with the lower bound
\* clamped at 0
C1_Witness ==
    /\ pc = "clean"
    /\ 1 \in mask
    /\ image[1].color # color_config[idx].color
    /\ \E i \in Channels : color_config[idx].color[i] - tolerance < 0

(***************************************************************************)
(* masks_to_polygons on its own: one category whose filled mask holds one  *)
(* contour, any sequence of distinct lattice points, simplified to any of  *)
(* its subsequences                                                        *)
(***************************************************************************)
LatticePoints == {<<x, y>> : x \in {0, 10}, y \in {0, 10, 20}}

LatticeContours ==
    {q \in SeqsBetween(LatticePoints, 1, MaxPts) :
        \A i, j \in 1..Len(q) : i # j => q[i] # q[j]}

InitVectorize ==
    /\ script \in {"quickstart", "no_legend"}
    /\ color_config = DefaultConfig(script)
    /\ tolerance = DefaultTolerance
    /\ image = <<>>
    /\ bbox = CLEVELAND_BBOX(script)
    /\ pc = "vectorize"
    /\ idx = 1
    /\ mask = {}
    /\ \E pts \in LatticeContours : \E approx \in Subseqs(pts) :
           masks = <<[category |-> "0-9 Mbps", mask |-> <<Traced(pts, approx)>>]>>
    /\ polygons = <<>> /\ geo_polygons = <<>>
    /\ gdf = None /\ outfile = None /\ stdout = <<>>
    /\ stdin = <<>> /\ files = NoFiles /\ locals = NoLocals

NextVectorize == VectorizeCategory

SpecVectorize == InitVectorize /\ [][NextVectorize]_vars

\* C3: every polygon emitted by masks_to_polygons has at least 3 vertices
\* and strictly positive area; a simplified contour with fewer than 3
\* vertices or zero area is never emitted.
C3_EmittedPolygonsNonDegenerate ==
    \A i \in 1..Len(polygons) :
        LET v == Vertices(polygons[i].geometry)
        IN  /\ Cardinality(Range(v)) >= 3
            /\ Abs(Shoelace2(v)) > 0

\* A triangle was emitted
C3_Witness ==
    /\ pc = "vectorize" /\ idx = 2
    /\ Len(polygons) = 1
    /\ Len(Vertices(polygons[1].geometry)) = 3

(***************************************************************************)
(* georeference_polygons on its own: any polygons with normalized          *)
(* coordinates in {0, 1/2, 1}, any bounding box                            *)
(***************************************************************************)
GeoDen == 2

NormalizedShapes ==
    { Polygon(Rect(0, 0, GeoDen, GeoDen), GeoDen, GeoDen),
      Polygon(Rect(0, 0, 1, 1), GeoDen, GeoDen),
      Polygon(<<<<1, 1>>, <<GeoDen, 1>>, <<GeoDen, GeoDen>>>>, GeoDen, GeoDen) }

NormalizedPolygons ==
    {PolyRec(g, c, HexOf("quickstart", c)) :
        g \in NormalizedShapes, c \in {"0-9 Mbps", "100+ Mbps"}}

\* west >= east or south >= north
Malformed(b) == b.west >= b.east \/ b.south >= b.north

BoundingBoxes ==
    { CLEVELAND_BBOX("quickstart"), CLEVELAND_BBOX("no_legend"),
      Box(-81550, -81820, 41390, 41600), Box(-81820, -81550, 41600, 41600) }

InitGeoreference ==
    /\ script = "quickstart"
    /\ color_config = SPEED_CATEGORIES
    /\ tolerance = DefaultTolerance
    /\ image = <<>>
    /\ bbox \in BoundingBoxes
    /\ pc = "georef"
    /\ idx = 1 /\ mask = {} /\ masks = <<>>
    /\ polygons \in SeqsBetween(NormalizedPolygons, 0, MaxGeoPolys)
    /\ geo_polygons = <<>>
    /\ gdf = None /\ outfile = None /\ stdout = <<>>
    /\ stdin = <<>> /\ files = NoFiles /\ locals = NoLocals

NextGeoreference == Georeference

SpecGeoreference == InitGeoreference /\ [][NextGeoreference]_vars

\* C2: georeference_polygons maps every normalized vertex (x, y) of every
\* polygon to lon = west + x * (east - west), lat = north - y * (north - south);
\* (0, 0) goes to (west, north), (1, 1) to (east, south), and with the box
\* {west -81.82, east -81.55, south 41.39, north 41.60} the vertex (0.5, 0.5)
\* goes to (-81.685, 41.495).  Coordinates are numerators over dx and dy,
\* degrees in 1/1000.
C2_GeoreferenceAffine ==
    pc = "merge" =>
        /\ Len(geo_polygons) = Len(polygons)
        /\ \A i \in 1..Len(polygons) :
            LET g == polygons[i].geometry
                h == geo_polygons[i].geometry
            IN  /\ Len(h.ring) = Len(g.ring)
                /\ h.dx = g.dx /\ h.dy = g.dy
                /\ \A j \in 1..Len(g.ring) :
                    LET x == g.ring[j][1]
                        y == g.ring[j][2]
                        lon == h.ring[j][1]
                        lat == h.ring[j][2]
                    IN  /\ lon = bbox.west * g.dx + x * (bbox.east - bbox.west)
                        /\ lat = bbox.north * g.dy - y * (bbox.north - bbox.south)
                        /\ (x = 0 /\ y = 0) =>
                               (lon = bbox.west * g.dx /\ lat = bbox.north * g.dy)
                        /\ (x = g.dx /\ y = g.dy) =>
                               (lon = bbox.east * g.dx /\ lat = bbox.south * g.dy)
                        /\ (bbox = Box(-81820, -81550, 41390, 41600)
                              /\ 2 * x = g.dx /\ 2 * y = g.dy) =>
                               (lon = -81685 * g.dx /\ lat = 41495 * g.dy)

\* A polygon with the vertices (0, 0), (1/2, 1/2) and (1, 1) was
\* georeferenced with the Cleveland box
C2_Witness ==
    /\ pc = "merge"
    /\ bbox = Box(-81820, -81550, 41390, 41600)
    /\ \E i \in 1..Len(polygons) :
          {<<0, 0>>, <<1, 1>>} \subseteq Range(polygons[i].geometry.ring)
    /\ \E i \in 1..Len(polygons) :
          <<GeoDen, GeoDen>> \in Range(polygons[i].geometry.ring)
    /\ Len(geo_polygons) = Len(polygons)

\* C9: a malformed bounding box (west >= east or south >= north) is rejected
\* before any vertex is transformed: georeferencing never produces a
\* georeferenced polygon from such a box.
C9_MalformedBoxRejected ==
    Malformed(bbox) => geo_polygons = <<>>

(***************************************************************************)
(* create_geojson on its own: any list of convex polygons in geographic    *)
(* coordinates, each with a category                                       *)
(***************************************************************************)
GeoShapes ==
    { Polygon(Rect(0, 0, 10, 10), 1, 1),                        \* A
      Polygon(Rect(10, 10, 20, 20), 1, 1),                      \* meets A in a corner
      Polygon(Rect(10, 0, 20, 10), 1, 1),                       \* shares a side with both
      Polygon(<<<<0, 0>>, <<20, 0>>, <<0, 20>>>>, 1, 1),        \* overlaps A
      Polygon(Rect(30, 0, 40, 10), 1, 1) }                      \* apart from all

\* Every shape in one category, and two shapes sharing a side in another
GeoPolygons ==
    {PolyRec(g, "0-9 Mbps", HexOf("quickstart", "0-9 Mbps")) : g \in GeoShapes}
      \cup {PolyRec(Polygon(r, 1, 1), "100+ Mbps", HexOf("quickstart", "100+ Mbps")) :
                r \in {Rect(0, 0, 10, 10), Rect(10, 0, 20, 10)}}

InitMerge ==
    /\ script \in {"quickstart", "extracted"}
    /\ color_config = DefaultConfig(script)
    /\ tolerance = DefaultTolerance
    /\ image = <<>>
    /\ bbox = CLEVELAND_BBOX(script)
    /\ pc = "merge"
    /\ idx = 1 /\ mask = {} /\ masks = <<>> /\ polygons = <<>>
    /\ geo_polygons \in SeqsBetween(GeoPolygons, 0, MaxPolys)
    /\ gdf = None /\ outfile = None /\ stdout = <<>>
    /\ stdin = <<>> /\ files = NoFiles /\ locals = NoLocals

NextMerge == Merge \/ SimplifyStep \/ Write

SpecMerge == InitMerge /\ [][NextMerge]_vars

\* The records of category c among recs
RecordsOf(recs, c) == {k \in 1..Len(recs) : recs[k].speed_category = c}

\* C5: create_geojson emits exactly one record per simple polygon of each
\* category's union: a category whose union has k disjoint parts yields
\* exactly k records, each tagged with that category; two disjoint
\* same-category regions yield 2 records, a single-polygon union 1 record.
C5_OneRecordPerPart ==
    pc = "summary" =>
        /\ outfile = gdf
        /\ \A c \in Range(CategoryNames) :
              LET parts == UnaryUnion(CategoryGeoms(geo_polygons, c))
              IN  /\ Cardinality(RecordsOf(outfile.rows, c)) = Len(parts)
                  /\ {outfile.rows[k].geometry : k \in RecordsOf(outfile.rows, c)} = Range(parts)
        /\ \A c \in Range(CategoryNames) :
              LET gs == CategoryGeoms(geo_polygons, c)
              IN  (Len(gs) = 2 /\ ~Touch(gs[1], gs[2])) =>
                      Cardinality(RecordsOf(outfile.rows, c)) = 2

\* Two disjoint regions of one category gave two records sharing the
\* category tag, and another category, whose union is a single polygon,
\* gave one
C5_Witness ==
    /\ pc = "summary"
    /\ \E c \in Range(CategoryNames) :
          LET gs == CategoryGeoms(geo_polygons, c)
          IN  /\ Len(gs) = 2 /\ ~Touch(gs[1], gs[2])
              /\ Cardinality(RecordsOf(outfile.rows, c)) = 2
    /\ \E c \in Range(CategoryNames) :
          /\ Len(CategoryGeoms(geo_polygons, c)) = 1
          /\ Cardinality(RecordsOf(outfile.rows, c)) = 1

\* The input polygons i and j are covered by one output record
SameRecord(recs, i, j) ==
    \E k \in 1..Len(recs) :
        /\ recs[k].speed_category = geo_polygons[i].speed_category
        /\ {geo_polygons[i].geometry, geo_polygons[j].geometry} \subseteq recs[k].geometry

\* Every output record covers input polygons of its own category only
OwnCategoryOnly(recs) ==
    \A k \in 1..Len(recs) : \A g \in recs[k].geometry :
        \E i \in 1..Len(geo_polygons) :
            /\ geo_polygons[i].geometry = g
            /\ geo_polygons[i].speed_category = recs[k].speed_category

StageRank(p) ==
    CASE p \in {"detect", "classify", "clean"} -> 1
      [] p = "vectorize" -> 2
      [] p = "georef" -> 3
      [] p \in {"merge", "simplify"} -> 4
      [] p = "write" -> 5
      [] p \in {"summary", "visualize"} -> 6
      [] OTHER -> 7

\* Every category of the table has its cleaned mask
MasksComplete ==
    /\ Len(masks) = Len(color_config)
    /\ \A k \in 1..Len(masks) : masks[k].category = color_config[k].name

\* C4: in every run the stages execute strictly in the order
\* classify-and-clean, vectorize, georeference, merge, write: all categories
\* are classified and cleaned before vectorization starts, the merge sees
\* the complete set of georeferenced polygons, the output file is written
\* only after the merge, and no stage is re-entered.
C4_StagesInOrder ==
    [][ /\ StageRank(pc') >= StageRank(pc)
        /\ (pc' = "vectorize" => MasksComplete')
        /\ (pc' = "georef" => idx' > Len(masks'))
        /\ (pc' = "merge" =>
               geo_polygons' = GeoreferencePolygons(polygons', bbox'))
        /\ (gdf' # None => StageRank(pc') >= 4)
        /\ (outfile' # None => (StageRank(pc') >= 6 /\ outfile' = gdf'))
        /\ (StageRank(pc') < 2 => polygons' = <<>>)
        /\ (StageRank(pc') < 3 => geo_polygons' = <<>>)
        /\ (StageRank(pc') < 4 => gdf' = None)
        /\ (StageRank(pc') < 6 => outfile' = None)
      ]_vars

\* A run with two categories that both yield polygons reached the end with
\* its file written
C4_Witness ==
    /\ pc = "done"
    /\ outfile # None
    /\ Len(masks) = Len(SPEED_CATEGORIES)
    /\ Len(geo_polygons) = 2
    /\ geo_polygons[1].speed_category # geo_polygons[2].speed_category

\* The run is past masks_to_polygons, every category having been classified
\* and cleaned
Vectorized ==
    /\ MasksComplete
    /\ \/ StageRank(pc) >= 3
       \/ pc = "vectorize" /\ idx > Len(masks)

\* The categories whose mask gave no polygon
EmptyCategories ==
    {masks[k].category : k \in 1..Len(masks)}
        \ {polygons[i].speed_category : i \in 1..Len(polygons)}

\* C7: a category whose mask has no set pixel, or no contour at or above the
\* minimum area, contributes zero polygons; this is not an error: the run
\* completes and the polygons of every other category are still emitted.
C7_EmptyCategoryIsNoError ==
    (Vectorized /\ EmptyCategories # {}) =>
        /\ pc \notin {"crashed", "caught"}
        /\ (pc = "done" /\ polygons # <<>>) =>
               /\ outfile # None
               /\ \A i \in 1..Len(polygons) :
                     \E k \in 1..Len(outfile.rows) :
                        /\ outfile.rows[k].speed_category = polygons[i].speed_category
                        /\ GeoreferenceOne(polygons[i], bbox).geometry
                               \in outfile.rows[k].geometry

\* C8: when a run yields zero polygons across all categories, the run does
\* not crash: the caller receives an explicit empty FeatureCollection
\* together with a signal that tells 'ran and found nothing' from a crash.
C8_EmptyRunGivesEmptyCollection ==
    (Vectorized /\ StageRank(pc) = 7 /\ polygons = <<>>) =>
        /\ pc = "done"
        /\ gdf = Frame(<<>>)
        /\ outfile = Frame(<<>>)

\* C10: an empty category set or a negative tolerance is a fatal
\* configuration error: the run aborts before any classification, cleaning
\* or vectorization step is executed, and is not treated as an ordinary run
\* that happens to find no polygons.
C10_BadConfigurationAborts ==
    (color_config = <<>> \/ tolerance < 0) =>
        /\ pc \notin {"clean", "vectorize", "georef", "merge"}
        /\ masks = <<>>
        /\ \A i \in 1..Len(stdout) : stdout[i] # "No polygons were detected"

\* The categories of the configuration whose classification raises
FailingCategories ==
    {k \in 1..Len(color_config) : ~HasColor(color_config[k])}

\* C11: a failure while classifying or cleaning one category does not abort
\* the run: the failing category is skipped, every other category still gets
\* its cleaned mask, and the run does not end in an exception.
C11_CategoryFailureSkipped ==
    FailingCategories # {} =>
        /\ pc \notin {"crashed", "caught"}
        /\ StageRank(pc) >= 2 =>
               \A k \in (1..Len(color_config)) \ FailingCategories :
                   \E i \in 1..Len(masks) : masks[i].category = color_config[k].name

\* The validity check dropped the contour: it passed the area filter and kept
\* three points or more, and its polygon is not valid or has no area
DroppedInvalid(contour, width, height) ==
    /\ ~TooSmall(contour)
    /\ Len(ApproxPolyDP(contour)) >= 3
    /\ ~ ( /\ IsValid(Polygon(ApproxPolyDP(contour), width, height))
           /\ AreaPositive(Polygon(ApproxPolyDP(contour), width, height)) )

\* C12: a polygon that fails the validity check is dropped with the event
\* recorded: after masks_to_polygons has dropped an invalid polygon, what it
\* returned and printed differs from what it returns and prints for the
\* same mask without that contour, so the drop leaves a trace.
C12_InvalidPolygonDropRecorded ==
    ( /\ pc = "vectorize" /\ idx = 2 /\ Len(masks) = 1
      /\ Len(masks[1].mask) = 1
      /\ DroppedInvalid(masks[1].mask[1], ImageW, ImageH) ) =>
        /\ polygons = <<>>
        /\ stdout # CountLine(script, masks[1].category, 0)

(***************************************************************************)
(* The mask cleaner on pixels: a mask is its shape and the set of its set  *)
(* pixels <<x, y>>, x in 0..w-1, y in 0..h-1                               *)
(***************************************************************************)
MaskW == 11
MaskH == 11
CleanerRuns == 2

\* kernel = np.ones((5, 5), np.uint8)
KernelSize == 5
KernelRadius == (KernelSize - 1) \div 2

PixelMask(w, h, px) == [w |-> w, h |-> h, px |-> px]

Pixels(m) == {<<x, y>> : x \in 0..(m.w - 1), y \in 0..(m.h - 1)}

\* The pixels of the image under the kernel anchored at p: cv2.morphologyEx
\* with the default border leaves the pixels outside the image out of the
\* minimum of an erosion and out of the maximum of a dilation
Window(m, p) ==
    (Max(0, p[1] - KernelRadius)..Min(m.w - 1, p[1] + KernelRadius))
        \X (Max(0, p[2] - KernelRadius)..Min(m.h - 1, p[2] + KernelRadius))

Dilate(m) ==
    PixelMask(m.w, m.h, {p \in Pixels(m) : \E q \in Window(m, p) : q \in m.px})

Erode(m) ==
    PixelMask(m.w, m.h, {p \in Pixels(m) : \A q \in Window(m, p) : q \in m.px})

\* cv2.morphologyEx(mask, cv2.MORPH_CLOSE, kernel)
MorphClose(m) == Erode(Dilate(m))

\* cv2.morphologyEx(mask, cv2.MORPH_OPEN, kernel)
MorphOpen_ErodeOnly(m) == Erode(m)
MorphOpen(m) == Dilate(Erode(m))

\* The four neighbours of p inside the image
Neighbours4(m, p) ==
    {q \in {<<p[1] - 1, p[2]>>, <<p[1] + 1, p[2]>>,
             <<p[1], p[2] - 1>>, <<p[1], p[2] + 1>>} :
        q[1] \in 0..(m.w - 1) /\ q[2] \in 0..(m.h - 1)}

\* The unset pixels reached from the unset pixels in seen through unset
\* pixels
RECURSIVE Flood(_, _)
Flood(m, seen) ==
    LET more == {q \in UNION {Neighbours4(m, p) : p \in seen} :
                    q \notin m.px /\ q \notin seen}
    IN  IF more = {} THEN seen ELSE Flood(m, seen \cup more)

\* The unset pixels outside every external contour of cv2.findContours(mask,
\* RETR_EXTERNAL): those connected to the image border through unset pixels
OutsideContours(m) ==
    Flood(m, {p \in Pixels(m) \ m.px :
                 p[1] \in {0, m.w - 1} \/ p[2] \in {0, m.h - 1}})

\* mask_filled = np.zeros_like(mask);
\* cv2.drawContours(mask_filled, contours, -1, 255, -1)
FillContours_None(m) == m
FillContours(m) == PixelMask(m.w, m.h, Pixels(m) \ OutsideContours(m))

\* The cleaner of detect_broadband_regions: close, open, fill
CleanMask(m) == FillContours(MorphOpen(MorphClose(m)))

\* One run of the cleaner, on the classified mask first and then on what the
\* cleaner returned
CleanPixels ==
    /\ pc = "clean"
    /\ Len(masks) < CleanerRuns
    /\ masks' = Append(masks,
                  [category |-> color_config[idx].name,
                   mask |-> CleanMask(IF masks = <<>> THEN mask
                                      ELSE masks[Len(masks)].mask)])
    /\ UNCHANGED <<script, pc, color_config, tolerance, image, bbox, idx, mask,
                   polygons, geo_polygons, gdf, outfile, stdout>>
    /\ UNCHANGED <<stdin, files, locals>>

\* Classified masks: one or two blocks of set pixels, or everything but
\* these blocks
BlockEdges(n) == {0, 2, 3, 6, 7, n - 1}

CoarseEdges(n) == {0, 3, 7, n - 1}

Block(x0, y0, x1, y1) == {<<x, y>> : x \in x0..x1, y \in y0..y1}

Blocks(ex, ey) ==
    {Block(x0, y0, x1, y1) : x0 \in ex, x1 \in ex, y0 \in ey, y1 \in ey}

BlockSets ==
    Blocks(BlockEdges(MaskW), BlockEdges(MaskH))
        \cup {a \cup b : a \in Blocks(CoarseEdges(MaskW), CoarseEdges(MaskH)),
                         b \in Blocks(CoarseEdges(MaskW), CoarseEdges(MaskH))}

ClassifiedMasks ==
    {PixelMask(MaskW, MaskH, b) : b \in BlockSets}
        \cup {PixelMask(MaskW, MaskH, Block(0, 0, MaskW - 1, MaskH - 1) \ b) :
                  b \in BlockSets}

InitClean ==
    /\ script = "quickstart"
    /\ color_config = DefaultConfig(script)
    /\ tolerance = DefaultTolerance
    /\ image = <<>>
    /\ bbox = CLEVELAND_BBOX(script)
    /\ pc = "clean"
    /\ idx = 1
    /\ mask \in ClassifiedMasks
    /\ masks = <<>> /\ polygons = <<>> /\ geo_polygons = <<>>
    /\ gdf = None /\ outfile = None /\ stdout = <<>>
    /\ stdin = <<>> /\ files = NoFiles /\ locals = NoLocals

NextClean == CleanPixels

SpecClean == InitClean /\ [][NextClean]_vars

\* C13: the mask cleaner is idempotent: applied to a mask that is already
\* the output of the cleaner it yields an identical mask.
C13_CleanerIdempotent ==
    \A i \in 2..Len(masks) : masks[i].mask = masks[i - 1].mask

\* The cleaner ran twice on a mask that it changed the first time, and on a
\* result that is neither empty nor full
C13_Witness ==
    /\ Len(masks) = 2
    /\ masks[1].mask # mask
    /\ masks[1].mask.px # {}
    /\ masks[1].mask.px # Pixels(mask)
    /\ masks[2].mask = masks[1].mask

\* C14: in every mask returned by detect_broadband_regions each area
\* enclosed by a traced external contour is set: the cleaned mask has no
\* hole (every unset pixel is connected through unset pixels to the outside
\* of all set regions) and it has the dimensions of the source image.
C14_CleanedMaskHasNoHole ==
    \A i \in 1..Len(masks) :
        LET m == masks[i].mask
        IN  /\ m.w = mask.w /\ m.h = mask.h
            /\ m.px \subseteq Pixels(mask)
            /\ (Pixels(m) \ m.px) \subseteq OutsideContours(m)

\* The cleaner returned a mask in which the fill set the pixels of a hole
\* that closing and opening had left unset
C14_Witness ==
    /\ Len(masks) >= 1
    /\ MorphOpen(MorphClose(mask)).px # masks[1].mask.px
    /\ MorphOpen(MorphClose(mask)).px # {}

\* The set pixels of m span fewer than KernelSize columns or rows
SmallRegion(m) ==
    /\ m.px # {}
    /\ \/ \A p, q \in m.px : Abs(p[1] - q[1]) < KernelSize - 1
       \/ \A p, q \in m.px : Abs(p[2] - q[2]) < KernelSize - 1

\* C15: the opening discards noise below the structuring element's size: a
\* set region of the classified mask that is under 5 pixels wide or high,
\* with no other set pixel in the mask, contributes no set pixel to the
\* cleaned mask, wherever in the image it lies, the image border included.
C15_SmallRegionDiscarded ==
    (SmallRegion(mask) /\ Len(masks) >= 1) => masks[1].mask.px = {}

\* masks_to_polygons has run on a mask with a single contour
VectorizedOne ==
    /\ pc = "vectorize" /\ idx = 2
    /\ Len(masks) = 1 /\ Len(masks[1].mask) = 1

\* C16: masks_to_polygons discards a contour exactly when its enclosed area
\* is below 100 px^2: no polygon comes from a contour enclosing less, and a
\* contour enclosing 100 px^2 or more is not dropped by the area filter (if
\* its simplified outline is a valid polygon, it is emitted).
C16_AreaFilterAtMinArea ==
    VectorizedOne =>
        LET c == masks[1].mask[1]
            twice == Abs(Shoelace2(c.pts))
        IN  /\ twice < 200 => polygons = <<>>
            /\ ( /\ twice >= 200
                  /\ Len(c.approx) >= 3
                  /\ IsValid(Polygon(c.approx, ImageW, ImageH))
                  /\ AreaPositive(Polygon(c.approx, ImageW, ImageH)) ) =>
                   /\ Len(polygons) = 1
                   /\ Vertices(polygons[1].geometry) = c.approx

\* A contour enclosing exactly 100 px^2 was emitted
C16_Witness ==
    /\ VectorizedOne
    /\ Abs(Shoelace2(masks[1].mask[1].pts)) = 200
    /\ Len(polygons) = 1

\* C17: every vertex of every polygon emitted by masks_to_polygons has both
\* normalized coordinates in [0, 1], x being the pixel x over the image
\* width and y the pixel y over the image height.
C17_VerticesNormalized ==
    VectorizedOne =>
        \A i \in 1..Len(polygons) :
            LET g == polygons[i].geometry
            IN  /\ g.dx = ImageW /\ g.dy = ImageH
                /\ Vertices(g) = masks[1].mask[1].approx
                /\ \A j \in 1..Len(g.ring) :
                      /\ 0 <= g.ring[j][1] /\ g.ring[j][1] <= g.dx
                      /\ 0 <= g.ring[j][2] /\ g.ring[j][2] <= g.dy

\* A polygon with a vertex in the last lattice row was emitted
C17_Witness ==
    /\ VectorizedOne
    /\ Len(polygons) = 1
    /\ \E j \in 1..Len(polygons[1].geometry.ring) :
          polygons[1].geometry.ring[j][2] = 20

\* The image is of one colour: a single region that covers it
UniformImage == Len(image) = 1 /\ image[1].contour = WholeImage

\* The perimeter of the contour of a uniform image, in pixels
WholePerimeter == 2 * (ImageW - 1) + 2 * (ImageH - 1)

\* Vertex j of g lies within 0.2% of the contour perimeter of the corner
\* <<cx, cy>> of the unit square, on both axes (in pixels, times 1000)
NearCorner(g, j, cx, cy) ==
    /\ 1000 * Abs(g.ring[j][1] - cx * g.dx) <= 2 * WholePerimeter
    /\ 1000 * Abs(g.ring[j][2] - cy * g.dy) <= 2 * WholePerimeter

\* C18: an image in which every pixel matches one category yields exactly 1
\* polygon for that category, covering the full extent: its normalized
\* vertices are the unit-square corners (0,0), (1,0), (1,1), (0,1) to within
\* the simplification tolerance, 0.2% of the contour perimeter.
C18_UniformImageGivesUnitSquare ==
    (UniformImage /\ Vectorized) =>
        \A k \in 1..Len(color_config) :
            InRange(image[1].color, LowerBound(color_config[k].color, tolerance),
                    UpperBound(color_config[k].color, tolerance)) =>
                LET own == {i \in 1..Len(polygons) :
                               polygons[i].speed_category = color_config[k].name}
                IN  /\ Cardinality(own) = 1
                    /\ \A i \in own : \A cx, cy \in {0, 1} :
                          \E j \in 1..Len(polygons[i].geometry.ring) :
                              NearCorner(polygons[i].geometry, j, cx, cy)

\* The display colour of a category in the category set supplied to the run
ConfigHex(config, category) ==
    LET k == CHOOSE n \in 1..Len(config) : config[n].name = category
    IN  config[k].hex

\* C19: every record of the output FeatureCollection carries as its color
\* the display colour of its category as given in the category set supplied
\* to the run, never one from a table inside the vectorization or merge.
C19_ColourFromCategorySet ==
    \A k \in 1..Len(outfile.rows) :
        outfile.rows[k].color = ConfigHex(color_config, outfile.rows[k].speed_category)

\* C20: in each run the FeatureCollection is created exactly once by
\* create_geojson, written to the output file exactly once and not mutated
\* afterwards: the steps after the write (summary, visualization) only read
\* it, and the simplification happens before the write.
C20_WrittenOnceThenReadOnly ==
    [][ /\ (gdf' # gdf =>
               \/ pc = "merge" /\ gdf = None /\ pc' = "simplify"
               \/ pc = "simplify" /\ outfile = None)
        /\ (outfile' # outfile =>
               /\ pc = "write" /\ outfile = None
               /\ outfile' = gdf /\ gdf' = gdf)
        /\ (pc = "simplify" => outfile = None)
        /\ (outfile # None => (gdf' = gdf /\ outfile' = outfile /\ outfile = gdf))
      ]_vars

\* A run ended after the summary and the visualization with the file it
\* wrote equal to the frame that create_geojson returned
C20_Witness ==
    /\ pc = "done"
    /\ outfile # None
    /\ outfile = gdf
    /\ Len(outfile.rows) >= 1
    /\ \E i \in 1..Len(stdout) : stdout[i] = "Summary"

(***************************************************************************)
(* The run as a function of its inputs: the raster, the category set, the  *)
(* tolerance and the bounding box                                          *)
(***************************************************************************)
\* The category set has an entry that detect_broadband_regions cannot read
UnreadableConfig(config) == \E i \in 1..Len(config) : ~HasColor(config[i])

\* masks[category] as detect_broadband_regions leaves it
RunMask(entry, tol, img) == FilledMask(img, InRangeMask(img, entry.color, tol))

\* all_polygons as masks_to_polygons returns it
RunPolygons(s, config, tol, img) ==
    Concat([i \in 1..Len(config) |->
               CategoryPolygons(s, config[i].name, RunMask(config[i], tol, img),
                                ImageW, ImageH)])

\* The run ends in an exception
RunFails(s, config, tol, img) ==
    \/ UnreadableConfig(config)
    \/ s = "quickstart" /\ RunPolygons(s, config, tol, img) = <<>>

\* geo_polygons as georeference_polygons returns it
RunGeoPolygons(s, config, tol, img, b) ==
    GeoreferencePolygons(RunPolygons(s, config, tol, img), b)

\* The records of the FeatureCollection made from geo when the categories
\* are visited in the given order
RunRecords(s, geo, order) ==
    LET merged == MergeCategories(s, geo, order)
    IN  {Simplify(merged[k]) : k \in 1..Len(merged)}

\* C21: the pipeline is deterministic: two runs given the same raster, the
\* same category set, the same tolerance and the same bounding box either
\* both fail or both complete with the same set of geometry/category/color
\* records, whatever the order in which the categories are visited.  Every
\* run that fails has inputs for which every run fails, and every run that
\* completes has written the records every visiting order gives.
C21_Deterministic ==
    /\ pc \in {"crashed", "caught"} =>
           RunFails(script, color_config, tolerance, image)
    /\ pc = "done" =>
           /\ ~UnreadableConfig(color_config)
           /\ geo_polygons = RunGeoPolygons(script, color_config, tolerance, image, bbox)
           /\ IF geo_polygons = <<>>
              THEN script # "quickstart" /\ outfile = None
              ELSE /\ outfile.made
                   /\ \A order \in CategoryOrders(script, geo_polygons) :
                          Range(outfile.rows) = RunRecords(script, geo_polygons, order)

\* A completed run of a script that visits the categories in set order, with
\* records of two categories, so that two visiting orders were possible
C21_Witness ==
    /\ pc = "done"
    /\ script # "quickstart"
    /\ outfile.made
    /\ Cardinality(CategoryOrders(script, geo_polygons)) >= 2
    /\ Cardinality({outfile.rows[k].speed_category : k \in 1..Len(outfile.rows)}) >= 2

\* C29: create_geojson preserves category coverage: every category that has
\* at least one input polygon appears in at least one output record, no
\* category without input polygons appears in the output, and the number of
\* output records of a category never exceeds the number of its input
\* polygons.
C29_CategoryCoverage ==
    pc = "summary" =>
        /\ \A k \in 1..Len(outfile.rows) :
              outfile.rows[k].speed_category \in
                  {geo_polygons[i].speed_category : i \in 1..Len(geo_polygons)}
        /\ \A c \in Range(CategoryNames) :
              LET given == Len(CategoryGeoms(geo_polygons, c))
                  written == Cardinality(RecordsOf(outfile.rows, c))
              IN  /\ given > 0 => written >= 1
                  /\ given = 0 => written = 0
                  /\ written <= given

\* A written FeatureCollection in which one category had several input
\* polygons merged into fewer records, another had a single polygon, and a
\* third had none
C29_Witness ==
    /\ pc = "summary"
    /\ \E c \in Range(CategoryNames) :
          /\ Len(CategoryGeoms(geo_polygons, c)) >= 2
          /\ Cardinality(RecordsOf(outfile.rows, c)) = 1
    /\ \E c \in Range(CategoryNames) :
          /\ Len(CategoryGeoms(geo_polygons, c)) = 1
          /\ Cardinality(RecordsOf(outfile.rows, c)) = 1
    /\ \E c \in Range(CategoryNames) :
          /\ Len(CategoryGeoms(geo_polygons, c)) = 0
          /\ Cardinality(RecordsOf(outfile.rows, c)) = 0

Exists(path) == path \in DOMAIN files

\* open(path, 'w') ... write(content), cv2.imwrite(path, content)
WriteFile(fs, path, content) ==
    [p \in (DOMAIN fs) \cup {path} |-> IF p = path THEN content ELSE fs[p]]

\* str.lower() on what the user may type
Lower(str) ==
    CASE str = "Y" -> "y"
      [] str = "N" -> "n"
      [] OTHER -> str

\* pdf_path = 'input/cuyahoga_broadband.pdf'
DefaultPdf == "input/cuyahoga_broadband.pdf"

\* A PDF whose first page shows, inside the crop area
\* img[crop_top:crop_bottom, crop_left:crop_right], the raster `map`
Page(map) == [map |-> map]

\* response.lower() != 'y' is false
Confirmed_Always(response) == TRUE
Confirmed(response) == Lower(response) = "y"

\* main up to the call of extract_map_from_pdf: the PDF check and the prompt
\* for another path
CheckPdf ==
    /\ pc = "main"
    /\ IF Exists(DefaultPdf)
       THEN /\ locals' = [pdf_path |-> DefaultPdf]
            /\ stdin' = stdin
            /\ stdout' = stdout
            /\ pc' = "extract"
       ELSE /\ stdin # <<>>
            /\ locals' = [pdf_path |-> Head(stdin)]
            /\ stdin' = Tail(stdin)
            /\ IF Exists(Head(stdin))
               THEN /\ stdout' = Append(stdout, "Error: PDF file not found")
                    /\ pc' = "extract"
               ELSE /\ stdout' = stdout \o <<"Error: PDF file not found",
                                              "Error: PDF file still not found">>
                    /\ pc' = "done"
    /\ UNCHANGED <<script, color_config, tolerance, image, bbox, idx, mask, masks,
                   polygons, geo_polygons, gdf, outfile, files>>

\* extract_map_from_pdf(pdf_path, preview=True) and `if map_image is None:
\* return` in main
ExtractMap ==
    /\ pc = "extract"
    /\ stdin # <<>>
    /\ LET cropped == files[locals.pdf_path].map
           response == Head(stdin)
       IN  /\ locals' = [pdf_path |-> locals.pdf_path, response |-> response]
           /\ stdin' = Tail(stdin)
           /\ IF Confirmed(response)
              THEN /\ image' = cropped
                   /\ stdout' = stdout
                   /\ pc' = "detect"
              ELSE /\ image' = image
                   /\ stdout' = Append(stdout, "Please adjust the crop values in the code.")
                   /\ pc' = "done"
    /\ UNCHANGED <<script, color_config, tolerance, bbox, idx, mask, masks,
                   polygons, geo_polygons, gdf, outfile, files>>

\* What the user may type at a prompt of broadband_quickstart.py
QuickstartAnswers == {"y", "Y", "n", "", "other.pdf", "missing.pdf"}

\* The first pages of the PDF files at hand
Pages ==
    { Page(<<>>),
      Page(<<Region(Red, SquareA)>>),
      Page(<<Region(Red, SquareA), Region(Green, SquareB)>>) }

\* The PDF files that exist when main starts
PdfFiles ==
    UNION {[S -> Pages] : S \in SUBSET {DefaultPdf, "other.pdf"}}

InitQuickstart ==
    /\ script = "quickstart"
    /\ color_config = SPEED_CATEGORIES
    /\ tolerance = DefaultTolerance
    /\ image = <<>>
    /\ bbox = CLEVELAND_BBOX("quickstart")
    /\ pc = "main"
    /\ idx = 0 /\ mask = {} /\ masks = <<>> /\ polygons = <<>>
    /\ geo_polygons = <<>> /\ gdf = None /\ outfile = None
    /\ stdout = <<>>
    /\ stdin \in [1..2 -> QuickstartAnswers]
    /\ files \in PdfFiles
    /\ locals = NoLocals

NextQuickstart ==
    \/ CheckPdf
    \/ ExtractMap
    \/ Next

SpecQuickstart == InitQuickstart /\ [][NextQuickstart]_vars

\* The user answered the crop confirmation
Answered == "response" \in DOMAIN locals

\* main returned before the detection: nothing was detected, vectorized,
\* georeferenced or merged, and the output file was not written
StoppedBeforeDetection ==
    /\ pc = "done"
    /\ idx = 0 /\ image = <<>> /\ masks = <<>> /\ polygons = <<>>
    /\ geo_polygons = <<>> /\ gdf = None /\ outfile = None

\* The PDF path typed at the prompt does not exist either
PdfStillMissing ==
    /\ pc # "main"
    /\ ~Exists(locals.pdf_path)

\* C22 as stated: when the user answers anything other than 'y' to the crop
\* confirmation, extract_map_from_pdf returns None and main ends without
\* running detection, vectorization, georeferencing or the merge, and without
\* writing the output GeoJSON file; likewise when the PDF path does not exist
\* after the second prompt.
C22_AnyAnswerButYStops ==
    /\ (Answered /\ locals.response # "y") => StoppedBeforeDetection
    /\ PdfStillMissing => StoppedBeforeDetection

\* C22: when the user answers anything other than 'y' or 'Y' to the crop
\* confirmation, extract_map_from_pdf returns None and main ends without
\* running detection, vectorization, georeferencing or the merge, and without
\* writing the output GeoJSON file; likewise when the PDF path does not exist
\* after the prompt for another path.
C22_DeclinedCropStops ==
    /\ (Answered /\ locals.response \notin {"y", "Y"}) => StoppedBeforeDetection
    /\ PdfStillMissing => StoppedBeforeDetection

\* The user declined the crop of a PDF that shows a region, and main has
\* returned
C22_Witness ==
    /\ Answered /\ locals.response = "n"
    /\ files[locals.pdf_path].map # <<>>
    /\ pc = "done"
    /\ stdout = <<"Please adjust the crop values in the code.">>

(***************************************************************************)
(* crop_map_no_legend.py: CropSelector and main.  An image is the sequence *)
(* of its rows, a row the sequence of its pixels; a crop fraction is kept  *)
(* in hundredths (25 is 0.25).                                             *)
(***************************************************************************)
PageH == 10
PageW == 12

\* image.shape[:2]
Height(img) == Len(img)
Width(img) == IF img = <<>> THEN 0 ELSE Len(img[1])

\* The page of a PDF as convert_from_path renders it, every pixel with a
\* value of its own
FullPage(h, w) == [r \in 1..h |-> [c \in 1..w |-> <<r, c>>]]

\* image[top:bottom, left:right]
Slice(img, top, bottom, left, right) ==
    LET t == Min(top, Height(img))
        b == Min(bottom, Height(img))
        l == Min(left, Width(img))
        r == Min(right, Width(img))
    IN  [i \in 1..Max(0, b - t) |-> [j \in 1..Max(0, r - l) |-> img[t + i][l + j]]]

\* An image attribute that may be None
NoneImage == [is_none |-> TRUE, rows |-> <<>>]
SomeImage(rows) == [is_none |-> FALSE, rows |-> rows]

\* int(dimension * fraction), the fraction in hundredths
PixelOf(dimension, fraction) == (dimension * fraction) \div 100

\* obj.name = value
SetAttr(obj, name, value) ==
    [a \in (DOMAIN obj) \cup {name} |-> IF a = name THEN value ELSE obj[a]]

\* CropSelector.update_crop
UpdateCrop_Skipped(sel) == sel
UpdateCrop(sel) ==
    SetAttr(sel, "cropped_img",
            SomeImage(Slice(sel.image, sel.top, sel.bottom, sel.left, sel.right)))

\* The initial crop parameters of CropSelector.__init__
DefaultCropTop == 25
DefaultCropBottom == 80
DefaultCropLeft == 8
DefaultCropRight == 70

\* CropSelector.__init__ with setup_plot: the fields, the first update_crop,
\* the four sliders at their initial values
CropSelector(img) ==
    UpdateCrop(
        [ image |-> img, height |-> Height(img), width |-> Width(img),
          crop_top |-> DefaultCropTop, crop_bottom |-> DefaultCropBottom,
          crop_left |-> DefaultCropLeft, crop_right |-> DefaultCropRight,
          top |-> PixelOf(Height(img), DefaultCropTop),
          bottom |-> PixelOf(Height(img), DefaultCropBottom),
          left |-> PixelOf(Width(img), DefaultCropLeft),
          right |-> PixelOf(Width(img), DefaultCropRight),
          cropped_img |-> NoneImage,
          s_top |-> DefaultCropTop, s_bottom |-> DefaultCropBottom,
          s_left |-> DefaultCropLeft, s_right |-> DefaultCropRight ])

\* CropSelector.update: called after the slider that moved took its value
SelectorUpdate(sel) ==
    LET moved == [sel EXCEPT !.crop_top = sel.s_top, !.crop_bottom = sel.s_bottom,
                             !.crop_left = sel.s_left, !.crop_right = sel.s_right]
        placed == [moved EXCEPT !.top = PixelOf(sel.height, moved.crop_top),
                                !.bottom = PixelOf(sel.height, moved.crop_bottom),
                                !.left = PixelOf(sel.width, moved.crop_left),
                                !.right = PixelOf(sel.width, moved.crop_right)]
    IN  UpdateCrop(placed)

\* crop_params of CropSelector.save_crop
CropParams(sel) ==
    [ top |-> sel.crop_top, bottom |-> sel.crop_bottom,
      left |-> sel.crop_left, right |-> sel.crop_right,
      pixel_top |-> sel.top, pixel_bottom |-> sel.bottom,
      pixel_left |-> sel.left, pixel_right |-> sel.right ]

\* The positions a slider can take: Slider(ax, 'Top', 0.0, 0.5) and
\* Slider(ax, 'Left', 0.0, 0.5), Slider(ax, 'Bottom', 0.5, 1.0) and
\* Slider(ax, 'Right', 0.5, 1.0)
SliderMin == 0
SliderMid == 50
SliderMax == 100
LowSliderValues == {SliderMin, DefaultCropLeft, DefaultCropTop, 33, SliderMid}
HighSliderValues == {SliderMid, 67, DefaultCropRight, DefaultCropBottom, SliderMax}
Sliders == {"s_top", "s_bottom", "s_left", "s_right"}
SliderValues(s) ==
    IF s \in {"s_top", "s_left"} THEN LowSliderValues ELSE HighSliderValues

\* main up to plt.show() inside selector.show(): the prompt for the PDF path,
\* the check, extract_map_from_pdf and the construction of the selector
CropMain ==
    /\ pc = "main"
    /\ stdin # <<>>
    /\ LET pdf_path == IF Head(stdin) = "" THEN DefaultPdf ELSE Head(stdin)
       IN  IF Exists(pdf_path)
           THEN /\ locals' = CropSelector(files[pdf_path])
                /\ stdout' = Append(stdout, "Use the sliders to adjust the crop area")
                /\ pc' = "show"
           ELSE /\ locals' = locals
                /\ stdout' = Append(stdout, "Error: PDF not found")
                /\ pc' = "done"
    /\ stdin' = Tail(stdin)
    /\ UNCHANGED <<script, color_config, tolerance, image, bbox, idx, mask, masks,
                   polygons, geo_polygons, gdf, outfile, files>>

\* The user moves one slider: the slider takes the value and calls update
MoveSlider ==
    /\ pc = "show"
    /\ \E s \in Sliders : \E val \in SliderValues(s) :
          /\ val # locals[s]
          /\ locals' = SelectorUpdate(SetAttr(locals, s, val))
    /\ UNCHANGED <<script, pc, color_config, tolerance, image, bbox, idx, mask, masks,
                   polygons, geo_polygons, gdf, outfile, stdout, stdin, files>>

\* The user presses 'Save Crop': save_crop closes the figure and plt.show()
\* returns
SaveCrop ==
    /\ pc = "show"
    /\ locals' = SetAttr(locals, "crop_result", CropParams(locals))
    /\ pc' = "shown"
    /\ UNCHANGED <<script, color_config, tolerance, image, bbox, idx, mask, masks,
                   polygons, geo_polygons, gdf, outfile, stdout, stdin, files>>

\* The user closes the window: plt.show() returns
CloseWindow ==
    /\ pc = "show"
    /\ pc' = "shown"
    /\ UNCHANGED <<script, color_config, tolerance, image, bbox, idx, mask, masks,
                   polygons, geo_polygons, gdf, outfile, stdout, stdin, files, locals>>

\* The lines main prints after save_crop_params, up to the first crop_params
\* key that does not exist; the f-strings read 'crop_top', 'pixel_top',
\* 'crop_bottom', ... in this order
SummaryKeys ==
    <<"crop_top", "pixel_top", "crop_bottom", "pixel_bottom",
      "crop_left", "pixel_left", "crop_right", "pixel_right">>

\* The positions in SummaryKeys of the keys that crop_params lacks
KeyErrors(crop_params) ==
    {k \in 1..Len(SummaryKeys) : SummaryKeys[k] \notin DOMAIN crop_params}

\* Where the cropped image goes: the answer, or 'map_no_legend.png'
CropOutputPath(answer) == IF answer = "" THEN "map_no_legend.png" ELSE answer

\* `return self.cropped_img, self.crop_result` in show and the rest of main,
\* with its except clause
AfterShow ==
    /\ pc = "shown"
    /\ pc' = "done"
    /\ IF "crop_result" \notin DOMAIN locals
       THEN \* AttributeError: no attribute 'crop_result'
            /\ stdout' = Append(stdout, "An error occurred")
            /\ UNCHANGED <<stdin, files>>
       ELSE IF locals.cropped_img.is_none
       THEN /\ stdout' = Append(stdout, "Cropping cancelled")
            /\ UNCHANGED <<stdin, files>>
       ELSE /\ stdin # <<>>
            /\ stdin' = Tail(stdin)
            /\ LET output_path == CropOutputPath(Head(stdin))
                   cropped == locals.cropped_img.rows
               IN  IF Height(cropped) = 0 \/ Width(cropped) = 0
                   THEN \* cv2.imwrite refuses an empty image
                        /\ files' = files
                        /\ stdout' = Append(stdout, "An error occurred")
                   ELSE /\ files' = WriteFile(WriteFile(files, output_path, cropped),
                                              "crop_params.txt", locals.crop_result)
                        /\ stdout' = stdout \o
                              <<"Cropped map saved", "Crop parameters saved",
                                "Crop Summary:">> \o
                              (IF KeyErrors(locals.crop_result) = {}
                               THEN <<"Top", "Bottom", "Left", "Right",
                                      "To update your main script">>
                               ELSE <<"An error occurred">>)
    /\ UNCHANGED <<script, color_config, tolerance, image, bbox, idx, mask, masks,
                   polygons, geo_polygons, gdf, outfile, locals>>

\* What the user may type at the prompts of crop_map_no_legend.py
CropAnswers == {"", "missing.pdf", "out.png"}

\* The PDF at the default path, when there is one
CropFiles ==
    {NoFiles} \cup {[p \in {DefaultPdf} |-> FullPage(h, PageW)] : h \in {PageH, PageH - 3}}

InitCrop ==
    /\ script = "crop_map_no_legend"
    /\ color_config = <<>>
    /\ tolerance = DefaultTolerance
    /\ image = <<>>
    /\ bbox = CLEVELAND_BBOX("quickstart")
    /\ pc = "main"
    /\ idx = 0 /\ mask = {} /\ masks = <<>> /\ polygons = <<>>
    /\ geo_polygons = <<>> /\ gdf = None /\ outfile = None
    /\ stdout = <<>>
    /\ stdin \in [1..2 -> CropAnswers]
    /\ files \in CropFiles
    /\ locals = NoLocals

NextCrop ==
    \/ CropMain
    \/ MoveSlider
    \/ SaveCrop
    \/ CloseWindow
    \/ AfterShow

SpecCrop == InitCrop /\ [][NextCrop]_vars

\* A CropSelector was constructed
SelectorExists == "cropped_img" \in DOMAIN locals

\* C28: in CropSelector, after construction and after any sequence of slider
\* changes (top and left in [0, 0.5], bottom and right in [0.5, 1.0]), the
\* pixel bounds satisfy 0 <= top <= bottom <= height and
\* 0 <= left <= right <= width, each equals int(dimension * fraction) of the
\* current slider value, and cropped_img equals image[top:bottom, left:right].
C28_CropBoundsOrdered ==
    SelectorExists =>
        LET sel == locals
        IN  /\ 0 <= sel.top /\ sel.top <= sel.bottom /\ sel.bottom <= sel.height
            /\ 0 <= sel.left /\ sel.left <= sel.right /\ sel.right <= sel.width
            /\ sel.top = (sel.height * sel.s_top) \div 100
            /\ sel.bottom = (sel.height * sel.s_bottom) \div 100
            /\ sel.left = (sel.width * sel.s_left) \div 100
            /\ sel.right = (sel.width * sel.s_right) \div 100
            /\ ~sel.cropped_img.is_none
            /\ Len(sel.cropped_img.rows) = sel.bottom - sel.top
            /\ \A i \in 1..(sel.bottom - sel.top) :
                  /\ Len(sel.cropped_img.rows[i]) = sel.right - sel.left
                  /\ \A j \in 1..(sel.right - sel.left) :
                        sel.cropped_img.rows[i][j] = sel.image[sel.top + i][sel.left + j]

\* All four sliders were moved away from their initial values, the top and
\* bottom sliders to the value they share, so that the crop has no row
C28_Witness ==
    /\ SelectorExists
    /\ pc = "show"
    /\ locals.s_top = SliderMid /\ locals.s_bottom = SliderMid
    /\ locals.s_left = SliderMin /\ locals.s_right = SliderMax
    /\ locals.top = locals.bottom
    /\ locals.cropped_img.rows = <<>>

\* C23: in the interactive crop tool, when cropping is cancelled (the window
\* is closed without pressing 'Save Crop'), main reports 'Cropping cancelled'
\* and returns without writing the cropped image or crop_params.txt and
\* without raising an error.
C23_CancelReported ==
    (pc = "done" /\ SelectorExists /\ "crop_result" \notin DOMAIN locals) =>
        /\ "Cropping cancelled" \in Range(stdout)
        /\ "An error occurred" \notin Range(stdout)
        /\ DOMAIN files = {DefaultPdf}

\* C24: in the interactive crop tool, after the user presses 'Save Crop',
\* main writes the cropped image and crop_params.txt and then prints the crop
\* summary and the suggested crop lines from the saved crop parameters,
\* reaching the end of main without an error.
C24_SavedCropSummarised ==
    (pc = "done" /\ SelectorExists /\ "crop_result" \in DOMAIN locals) =>
        /\ "crop_params.txt" \in DOMAIN files
        /\ \E p \in {"map_no_legend.png", "out.png", "missing.pdf"} : p \in DOMAIN files
        /\ "To update your main script" \in Range(stdout)
        /\ "An error occurred" \notin Range(stdout)

(***************************************************************************)
(* test_pdf_extraction.py: test_extraction and the recursive               *)
(* extract_map_from_pdf                                                    *)
(***************************************************************************)
\* How often the user adjusts the crop parameters in one run
MaxAdjust == 2

\* The default crop fractions of extract_map_from_pdf, in hundredths
TestCropTop == 20
TestCropBottom == 90
TestCropLeft == 15
TestCropRight == 68

\* crop_params=None, and a tuple (crop_top, crop_bottom, crop_left, crop_right)
NoParams == [is_none |-> TRUE, top |-> 0, bottom |-> 0, left |-> 0, right |-> 0]
Params(t, b, l, r) == [is_none |-> FALSE, top |-> t, bottom |-> b, left |-> l, right |-> r]

\* crop_top, crop_bottom, crop_left, crop_right of a call
DefaultParams(img) ==
    Params(PixelOf(Height(img), TestCropTop), PixelOf(Height(img), TestCropBottom),
           PixelOf(Width(img), TestCropLeft), PixelOf(Width(img), TestCropRight))
EffectiveParams(img, crop_params) ==
    IF crop_params.is_none THEN DefaultParams(img) ELSE crop_params

\* cropped = img[crop_top:crop_bottom, crop_left:crop_right]
Cropped(img, crop_params) ==
    LET p == EffectiveParams(img, crop_params)
    IN  Slice(img, p.top, p.bottom, p.left, p.right)

\* int(text) succeeds: text is the decimal form of an integer
IsInt(text) == \E n \in 0..(PageH + PageW) : ToString(n) = text
IntOf(text) == CHOOSE n \in 0..(PageH + PageW) : ToString(n) = text

\* int(input(...) or current)
Entered(text, current) == IF text = "" THEN current ELSE IntOf(text)
EntryValid(text) == text = "" \/ IsInt(text)

\* What the user may type for a crop value
EntryValues == {"", "abc", "3", ToString(PageH - 1)}

\* test_extraction up to the call of extract_map_from_pdf
TestExtraction ==
    /\ pc = "main"
    /\ \E pdf_path \in {DefaultPdf, "missing.pdf"} :
          IF Exists(pdf_path)
          THEN /\ locals' = [img |-> files[pdf_path], crop_params |-> NoParams,
                             depth |-> 0, map_image |-> NoneImage]
               /\ stdout' = Append(stdout, "Attempting to extract map")
               /\ pc' = "extract"
          ELSE /\ locals' = locals
               /\ stdout' = Append(stdout, "Error: PDF file not found")
               /\ pc' = "done"
    /\ UNCHANGED <<script, color_config, tolerance, image, bbox, idx, mask, masks,
                   polygons, geo_polygons, gdf, outfile, stdin, files>>

\* One call of extract_map_from_pdf(pdf_path, preview, crop_params), up to
\* its return or its recursive call
ExtractMapFromPdf ==
    /\ pc = "extract"
    /\ LET cropped == Cropped(locals.img, locals.crop_params)
           current == EffectiveParams(locals.img, locals.crop_params)
       IN  \E response \in {"y", "Y", "n"} :
              IF Lower(response) = "y"
              THEN /\ locals' = [locals EXCEPT !.map_image = SomeImage(cropped)]
                   /\ stdout' = stdout
                   /\ pc' = "returned"
              ELSE \E adjust \in {"y", "n", ""} :
                 IF Lower(adjust) # "y"
                 THEN /\ locals' = [locals EXCEPT !.map_image = NoneImage]
                      /\ stdout' = Append(stdout, "Please adjust the crop values in the code.")
                      /\ pc' = "returned"
                 ELSE \E entry \in [1..4 -> EntryValues] :
                    IF \A k \in 1..4 : EntryValid(entry[k])
                    THEN /\ locals.depth < MaxAdjust
                         /\ locals' = [locals EXCEPT
                                 !.crop_params = Params(Entered(entry[1], current.top),
                                                        Entered(entry[2], current.bottom),
                                                        Entered(entry[3], current.left),
                                                        Entered(entry[4], current.right)),
                                 !.depth = locals.depth + 1]
                         /\ stdout' = stdout
                         /\ pc' = "extract"
                    ELSE /\ locals' = [locals EXCEPT !.map_image = SomeImage(cropped)]
                         /\ stdout' = Append(stdout, "Invalid input. Using default values.")
                         /\ pc' = "returned"
    /\ UNCHANGED <<script, color_config, tolerance, image, bbox, idx, mask, masks,
                   polygons, geo_polygons, gdf, outfile, stdin, files>>

\* test_extraction after the call: the report and the offer to save
AfterExtraction ==
    /\ pc = "returned"
    /\ pc' = "done"
    /\ IF locals.map_image.is_none
       THEN /\ stdout' = Append(stdout, "Extraction failed or was cancelled by user.")
            /\ files' = files
       ELSE \E save \in {"y", "n"} :
               IF Lower(save) = "y"
               THEN /\ files' = WriteFile(files, "extracted_map.png", locals.map_image.rows)
                    /\ stdout' = stdout \o <<"Extraction successful!", "Map saved">>
               ELSE /\ files' = files
                    /\ stdout' = Append(stdout, "Extraction successful!")
    /\ UNCHANGED <<script, color_config, tolerance, image, bbox, idx, mask, masks,
                   polygons, geo_polygons, gdf, outfile, stdin, locals>>

InitExtract ==
    /\ script = "test_pdf_extraction"
    /\ color_config = <<>>
    /\ tolerance = DefaultTolerance
    /\ image = <<>>
    /\ bbox = CLEVELAND_BBOX("quickstart")
    /\ pc = "main"
    /\ idx = 0 /\ mask = {} /\ masks = <<>> /\ polygons = <<>>
    /\ geo_polygons = <<>> /\ gdf = None /\ outfile = None
    /\ stdout = <<>>
    /\ stdin = <<>>
    /\ files \in CropFiles
    /\ locals = NoLocals

NextExtract ==
    \/ TestExtraction
    \/ ExtractMapFromPdf
    \/ AfterExtraction

SpecExtract == InitExtract /\ [][NextExtract]_vars

\* extract_map_from_pdf has returned to test_extraction
ExtractReturned == pc \in {"returned", "done"} /\ "map_image" \in DOMAIN locals

\* The user entered a non-integer crop value
InvalidEntry == "Invalid input. Using default values." \in Range(stdout)

\* C25: in test_pdf_extraction.extract_map_from_pdf, when the user chooses to
\* adjust the crop and enters a non-integer value, the function reports
\* 'Using default values' and the crop it returns is the one computed from
\* the default crop fractions (top 20%, bottom 90%, left 15%, right 68%),
\* whatever crop parameters were in effect for that call; when all four
\* entries are valid the returned crop is the one of the last confirmed
\* parameters.
C25_InvalidEntryGivesDefaultCrop ==
    ExtractReturned =>
        /\ InvalidEntry =>
              locals.map_image = SomeImage(Cropped(locals.img, NoParams))
        /\ (~InvalidEntry /\ ~locals.map_image.is_none) =>
              locals.map_image = SomeImage(Cropped(locals.img, locals.crop_params))

(***************************************************************************)
(* color_sampler.py: sample_from_legend with its click handler, and main   *)
(* with the rewrite of broadband_quickstart.py.  A text is the sequence of *)
(* its tokens, every brace a token of its own.                             *)
(***************************************************************************)
LegendW == 4
LegendH == 2

\* The legend as extract_map crops it: one column of pixels per legend box,
\* in the colours of the boxes, white to the right of the last box
LegendImage ==
    [r \in 1..LegendH |->
        [c \in 1..LegendW |->
            IF c <= Len(SPEED_CATEGORIES) THEN SPEED_CATEGORIES[c].color ELSE White]]

\* int(event.xdata): the integer part, towards zero; coordinates are kept in
\* halves of a pixel
IntPart(halves) == IF halves >= 0 THEN halves \div 2 ELSE -((-halves) \div 2)

\* 0 <= x < width and 0 <= y < height
InBounds_Inclusive(x, y, width, height) ==
    0 <= x /\ x <= width /\ 0 <= y /\ y <= height
InBounds(x, y, width, height) ==
    0 <= x /\ x < width /\ 0 <= y /\ y < height

RECURSIVE SumChannel(_, _)
SumChannel(pixels, ch) ==
    IF pixels = <<>> THEN 0 ELSE Head(pixels)[ch] + SumChannel(Tail(pixels), ch)

\* np.mean(legend_image[y_min:y_max, x_min:x_max], axis=(0, 1)).astype(int)
\* for the 5x5 area around (x, y)
AvgColor(img, x, y) ==
    LET x_min == Max(0, x - 2)
        x_max == Min(Width(img), x + 3)
        y_min == Max(0, y - 2)
        y_max == Min(Height(img), y + 3)
        pixels == Concat(Slice(img, y_min, y_max, x_min, x_max))
    IN  [ch \in 1..3 |-> SumChannel(pixels, ch) \div Len(pixels)]

\* '{:02x}'.format(n)
HexDigit(d) == SubSeq("0123456789abcdef", d + 1, d + 1)
Hex2(n) == HexDigit(n \div 16) \o HexDigit(n % 16)

\* '#{:02x}{:02x}{:02x}'.format(avg_color[0], avg_color[1], avg_color[2])
HexColor(c) == "#" \o Hex2(c[1]) \o Hex2(c[2]) \o Hex2(c[3])

\* colors[category] = value on a dict kept in insertion order
DictSet(dict, entry) ==
    IF \E k \in 1..Len(dict) : dict[k].name = entry.name
    THEN [k \in 1..Len(dict) |-> IF dict[k].name = entry.name THEN entry ELSE dict[k]]
    ELSE Append(dict, entry)

\* A button_press_event: outside the axes xdata and ydata are None
NoData == [inaxes |-> FALSE, x2 |-> 0, y2 |-> 0]
DataAt(x2, y2) == [inaxes |-> TRUE, x2 |-> x2, y2 |-> y2]

\* onclick(event) of sample_from_legend on the closure variables colors,
\* current_category; `open` is whether plt.close() was not yet called
OnClick(loc, event) ==
    IF loc.current_category >= Len(CategoryNames)
    THEN [loc EXCEPT !.open = FALSE, !.event = event]
    ELSE LET x == IntPart(event.x2)
             y == IntPart(event.y2)
         IN  IF event.inaxes /\ InBounds(x, y, Width(loc.legend_image),
                                         Height(loc.legend_image))
             THEN LET avg_color == AvgColor(loc.legend_image, x, y)
                      category == CategoryNames[loc.current_category + 1]
                  IN  [loc EXCEPT
                         !.colors = DictSet(loc.colors,
                                            Cat(category, avg_color, HexColor(avg_color))),
                         !.current_category = loc.current_category + 1,
                         !.open = loc.current_category + 1 < Len(CategoryNames),
                         !.event = event]
             ELSE [loc EXCEPT !.event = event]

\* The crop fractions of extract_map, in hundredths
LegendCropTop == 80
LegendCropBottom == 90
LegendCropLeft == 10
LegendCropRight == 90

\* extract_map(pdf_path): the legend area of the page
ExtractLegend(page) ==
    Slice(page, PixelOf(Height(page), LegendCropTop),
                PixelOf(Height(page), LegendCropBottom),
                PixelOf(Width(page), LegendCropLeft),
                PixelOf(Width(page), LegendCropRight))

\* A page whose legend area shows LegendImage, white elsewhere
LegendPage ==
    [r \in 1..(10 * LegendH) |->
        [c \in 1..(LegendW + 1) |->
            IF r > 8 * LegendH /\ r <= 9 * LegendH /\ c <= LegendW
            THEN LegendImage[r - 8 * LegendH][c]
            ELSE White]]

\* str(values['color']) of a list of three integers
ListStr(c) == "[" \o ToString(c[1]) \o ", " \o ToString(c[2]) \o ", " \o ToString(c[3]) \o "]"

\* One line "    'name': {'color': [r, g, b], 'hex': '#rrggbb'}," of a
\* dictionary, token by token
EntryTokens(cat) ==
    << "'" \o cat.name \o "': ", "{",
       "'color': " \o ListStr(cat.color) \o ", 'hex': '" \o cat.hex \o "'",
       "}", "," >>

\* generate_config_snippet(colors)
GenerateConfigSnippet(colors) ==
    <<"SPEED_CATEGORIES = ", "{">>
        \o Concat([k \in 1..Len(colors) |-> EntryTokens(colors[k])])
        \o <<"}">>

\* The text of broadband_quickstart.py around a SPEED_CATEGORIES dictionary
ScriptAround(dictionary) ==
    <<"import cv2">>
        \o dictionary
        \o <<"CLEVELAND_BBOX = ", "{", "'west': -81.82", "}", "def main():">>

\* scripts/broadband_quickstart.py as it is in the repository
QuickstartScript == ScriptAround(GenerateConfigSnippet(SPEED_CATEGORIES))

\* Where a match of r"SPEED_CATEGORIES = \{[^}]*\}" that starts at token i
\* ends: at the first closing brace after the opening one; 0 for no match
MatchEnd(text, i) ==
    IF /\ i + 1 <= Len(text)
       /\ text[i] = "SPEED_CATEGORIES = "
       /\ text[i + 1] = "{"
       /\ \E j \in (i + 2)..Len(text) : text[j] = "}"
    THEN MinOf({j \in (i + 2)..Len(text) : text[j] = "}"})
    ELSE 0

\* re.sub(pattern, config, script, flags=re.DOTALL) from token i on
RECURSIVE ReSub(_, _, _)
ReSub(text, config, i) ==
    IF i > Len(text) THEN <<>>
    ELSE IF MatchEnd(text, i) > 0
         THEN config \o ReSub(text, config, MatchEnd(text, i) + 1)
         ELSE <<text[i]>> \o ReSub(text, config, i + 1)

QuickstartPath == "scripts/broadband_quickstart.py"

\* main up to plt.show() in sample_from_legend
SamplerMain ==
    /\ pc = "main"
    /\ stdin # <<>>
    /\ LET pdf_path == IF Head(stdin) = "" THEN DefaultPdf ELSE Head(stdin)
       IN  IF Exists(pdf_path)
           THEN /\ locals' = [legend_image |-> ExtractLegend(files[pdf_path]),
                              colors |-> <<>>, current_category |-> 0,
                              open |-> TRUE, event |-> NoData]
                /\ stdout' = Append(stdout, "Please click on each colored box")
                /\ pc' = "show"
           ELSE /\ locals' = locals
                /\ stdout' = Append(stdout, "Error: PDF not found")
                /\ pc' = "done"
    /\ stdin' = Tail(stdin)
    /\ UNCHANGED <<script, color_config, tolerance, image, bbox, idx, mask, masks,
                   polygons, geo_polygons, gdf, outfile, files>>

\* The clicks tried, positions in halves of a pixel: outside the axes; on
\* the first, second and last box; half a pixel and a pixel and a half left
\* of the first pixel centre; right of the last column; above and below
Events ==
    { NoData,
      DataAt(0, 0), DataAt(2, 2 * (LegendH - 1)), DataAt(2 * (LegendW - 1), 0),
      DataAt(-1, 0), DataAt(-3, 0), DataAt(2 * LegendW, 0),
      DataAt(0, -2), DataAt(0, 2 * LegendH) }

\* A button press while the figure is shown
Click ==
    /\ pc = "show"
    /\ \E event \in Events : locals' = OnClick(locals, event)
    /\ UNCHANGED <<script, pc, color_config, tolerance, image, bbox, idx, mask, masks,
                   polygons, geo_polygons, gdf, outfile, stdout, stdin, files>>

\* plt.show() returns: the figure was closed by the handler or by the user
ShowReturns ==
    /\ pc = "show"
    /\ pc' = "sampled"
    /\ UNCHANGED <<script, color_config, tolerance, image, bbox, idx, mask, masks,
                   polygons, geo_polygons, gdf, outfile, stdout, stdin, files, locals>>

\* main after sample_from_legend: sampled_colors.json, the snippet, and the
\* rewrite of broadband_quickstart.py when the user asks for it
AfterSampling ==
    /\ pc = "sampled"
    /\ stdin # <<>>
    /\ pc' = "done"
    /\ stdin' = Tail(stdin)
    /\ LET config == GenerateConfigSnippet(locals.colors)
           saved == WriteFile(files, "sampled_colors.json", locals.colors)
       IN  IF Lower(Head(stdin)) = "y"
           THEN IF Exists(QuickstartPath)
                THEN /\ files' = WriteFile(saved, QuickstartPath,
                                           ReSub(files[QuickstartPath], config, 1))
                     /\ stdout' = stdout \o <<"Color configuration saved",
                                              "Main script updated successfully!">>
                ELSE /\ files' = saved
                     /\ stdout' = stdout \o <<"Color configuration saved",
                                              "An error occurred">>
           ELSE /\ files' = saved
                /\ stdout' = Append(stdout, "Color configuration saved")
    /\ UNCHANGED <<script, color_config, tolerance, image, bbox, idx, mask, masks,
                   polygons, geo_polygons, gdf, outfile, locals>>

\* What the user may type at the prompts of color_sampler.py
SamplerAnswers == {"", "missing.pdf", "y"}

\* The PDF and the script to rewrite, each there or not
SamplerFiles ==
    { NoFiles,
      [p \in {DefaultPdf} |-> LegendPage],
      [p \in {DefaultPdf, QuickstartPath} |->
          IF p = DefaultPdf THEN LegendPage ELSE QuickstartScript] }

InitSampler ==
    /\ script = "color_sampler"
    /\ color_config = <<>>
    /\ tolerance = DefaultTolerance
    /\ image = <<>>
    /\ bbox = CLEVELAND_BBOX("quickstart")
    /\ pc = "main"
    /\ idx = 0 /\ mask = {} /\ masks = <<>> /\ polygons = <<>>
    /\ geo_polygons = <<>> /\ gdf = None /\ outfile = None
    /\ stdout = <<>>
    /\ stdin \in [1..2 -> SamplerAnswers]
    /\ files \in SamplerFiles
    /\ locals = NoLocals

NextSampler ==
    \/ SamplerMain
    \/ Click
    \/ ShowReturns
    \/ AfterSampling

SpecSampler == InitSampler /\ [][NextSampler]_vars

\* sample_from_legend was called
Sampling == "current_category" \in DOMAIN locals

\* C26: in color_sampler, when the user opts to update
\* broadband_quickstart.py, the whole SPEED_CATEGORIES dictionary of that
\* script (from 'SPEED_CATEGORIES = {' through its closing brace, all five
\* entries) is replaced by the generated configuration snippet and every
\* other part of the script is left unchanged, so the rewritten script's
\* SPEED_CATEGORIES equals the sampled colours.
C26_WholeDictionaryReplaced ==
    (pc = "done" /\ "Main script updated successfully!" \in Range(stdout)) =>
        files[QuickstartPath] = ScriptAround(GenerateConfigSnippet(locals.colors))

\* The click that was handled last fell on a pixel of the legend image
OnImage(loc) ==
    /\ loc.event.inaxes
    /\ 0 <= IntPart(loc.event.x2) /\ IntPart(loc.event.x2) < Width(loc.legend_image)
    /\ 0 <= IntPart(loc.event.y2) /\ IntPart(loc.event.y2) < Height(loc.legend_image)

\* C27: in color_sampler.sample_from_legend, after any sequence of click
\* events, the sampled colours are exactly those of the first
\* current_category categories in the fixed order 0-9, 10-24, 25-49, 50-100,
\* 100+ Mbps, with 0 <= current_category <= 5; a click outside the axes or
\* outside the image bounds changes neither the colours nor
\* current_category, each valid click assigns exactly the next category, and
\* once all five are sampled no later click changes any sampled colour.
C27_SampledInOrder ==
    [][ (Sampling /\ pc = "show") =>
          /\ locals.current_category \in 0..5
          /\ Len(locals.colors) = locals.current_category
          /\ \A k \in 1..Len(locals.colors) : locals.colors[k].name = CategoryNames[k]
          /\ pc' = "show" =>
                LET n == locals.current_category
                IN  /\ locals'.current_category \in 0..5
                    /\ Len(locals'.colors) = locals'.current_category
                    /\ \A k \in 1..Len(locals'.colors) :
                          locals'.colors[k].name = CategoryNames[k]
                    /\ ~OnImage(locals') =>
                          /\ locals'.colors = locals.colors
                          /\ locals'.current_category = n
                    /\ n = 5 =>
                          /\ locals'.colors = locals.colors
                          /\ locals'.current_category = n
                    /\ (OnImage(locals') /\ n < 5) =>
                          /\ locals'.current_category = n + 1
                          /\ SubSeq(locals'.colors, 1, n) = locals.colors
                          /\ locals'.colors[n + 1].name = CategoryNames[n + 1]
                          /\ locals'.colors[n + 1].color =
                                AvgColor(locals.legend_image,
                                         IntPart(locals'.event.x2),
                                         IntPart(locals'.event.y2))
      ]_vars

\* All five categories are sampled, the last click handled came after the
\* fifth sample (the colour under it is not the one kept for '100+ Mbps'),
\* and the first two categories were sampled at different places
C27_Witness ==
    /\ Sampling /\ pc = "show"
    /\ locals.current_category = 5
    /\ Len(locals.colors) = 5
    /\ OnImage(locals)
    /\ locals.colors[5].color # AvgColor(locals.legend_image,
                                         IntPart(locals.event.x2),
                                         IntPart(locals.event.y2))
    /\ locals.colors[1].color # locals.colors[2].color

====
